---- MODULE Spec2Model ----
(***************************************************************************)
(* Verification model of vue-router 4.5.0: the in-memory history           *)
(* (history/memory.ts) and the navigation orchestrator (router.ts).        *)
(***************************************************************************)
EXTENDS Integers, Sequences, FiniteSets, TLC

(***************************************************************************)
(* Bounds of the model                                                     *)
(***************************************************************************)
\* longest in-memory history queue explored by the history specification
MaxQueue == 4

\* guard redirects one navigation may follow in Spec and SpecSeq
MaxHops == 1

\* guard redirects one navigation may follow in SpecLoop
LoopHops == 33

\* depth at which the runtime gives up a synchronous recursion (stack overflow)
StackLimit == 40

\* guards registered with beforeEach, and with beforeResolve
MaxGuards == 1

\* hooks registered with afterEach
MaxAfter == 2

\* handlers registered with onError
MaxErr == 1

\* callers of isReady
MaxWaiters == 1

\* callbacks registered with listen on the in-memory history
MaxListeners == 2

\* longest route path given to tokenizePath, in characters
MaxPathLen == 5

\* longest path given to the parse of a compiled pattern, in characters
MaxParsedLen == 5

\* matchers created in the table over a run, aliases included
MaxCreated == 4

(***************************************************************************)
(* Generic helpers                                                         *)
(***************************************************************************)
Range(s) == {s[i] : i \in 1..Len(s)}

Max(a, b) == IF a > b THEN a ELSE b

Min(a, b) == IF a < b THEN a ELSE b

(***************************************************************************)
(* history/common.ts                                                       *)
(***************************************************************************)
\* export const START: HistoryLocation = ''
\* (a string is the sequence of its pieces; the empty string is <<>>)
START == <<>>

(***************************************************************************)
(* State                                                                   *)
(***************************************************************************)
VARIABLES
  queue,      \* memory history: HistoryLocation[]
  position,   \* memory history: index of the current entry (0-based)
  listeners,  \* memory history: NavigationCallback[]
  lastOp,     \* observer: the history operation performed by the last step
  script,     \* observer: progress through push(/a) push(/b) go(-1) push(/c) go(1), then any go
  unsubscribed, \* observer: callbacks whose unsubscribe function has been called
  lastGo      \* observer: the last call of go, and the callbacks it invoked

VARIABLES
  currentRoute,         \* router: currentRoute.value
  pendingLocation,      \* router: identity of the object held by pendingLocation
  beforeGuards,         \* router: registry of beforeEach
  beforeResolveGuards,  \* router: registry of beforeResolve
  afterGuards,          \* router: registry of afterEach
  errorListeners,       \* router: registry of onError
  readyHandlers,        \* router: [resolve, reject] pairs queued by isReady
  ready,                \* router: the ready flag
  listening,            \* router: removeHistoryListener is set
  waiters,              \* the promises returned by isReady
  navs                  \* the navigations started by push and replace

VARIABLES
  input,      \* matcher: the argument of the function under study
  output      \* matcher: what the function returned or threw

VARIABLES
  matchers,   \* matcher table: the matchers, most specific first
  matcherMap, \* matcher table: name -> id of the matcher, 0 for none
  created     \* matcher table: how many matchers were created so far

histVars == <<queue, position, listeners>>

obsVars == <<lastOp, script, unsubscribed, lastGo>>

regVars == <<beforeGuards, beforeResolveGuards, afterGuards, errorListeners>>

readyVars == <<readyHandlers, ready, listening, waiters>>

routerVars == <<currentRoute, pendingLocation, regVars, readyVars, navs>>

tableVars == <<matchers, matcherMap, created>>

fnVars == <<input, output, tableVars>>

vars == <<histVars, obsVars, routerVars, fnVars>>

(***************************************************************************)
(* history/memory.ts : createMemoryHistory                                 *)
(* The operations are functions from (queue, position) to the new pair.    *)
(***************************************************************************)
\* Array.prototype.splice(start): keeps the first `start` entries
SpliceFrom(q, start) == SubSeq(q, 1, Min(start, Len(q)))

\* Array.prototype.splice(start, 1): removes the entry at 0-based index start
SpliceOne(q, start) ==
  IF start < Len(q)
    THEN SubSeq(q, 1, start) \o SubSeq(q, start + 2, Len(q))
    ELSE q

\* mutant: setLocation without the splice of the entries ahead
SetLocation_NoSplice(q, p, location) ==
  [queue |-> Append(q, location), position |-> p + 1]

\* function setLocation(location)
SetLocation(q, p, location) ==
  LET p1 == p + 1
      q1 == IF p1 # Len(q) THEN SpliceFrom(q, p1) ELSE q
  IN  [queue |-> Append(q1, location), position |-> p1]

\* routerHistory.push(to)
MemPush(q, p, to) == SetLocation(q, p, to)

\* mutant: replace that does not step the cursor back before setLocation
MemReplace_NoDecrement(q, p, to) == SetLocation(SpliceOne(q, p), p, to)

\* routerHistory.replace(to): queue.splice(position--, 1); setLocation(to)
MemReplace(q, p, to) == SetLocation(SpliceOne(q, p), p - 1, to)

\* routerHistory.go(delta): the clamped cursor
MemGo(q, p, delta) == Max(0, Min(p + delta, Len(q) - 1))

\* get location(): queue[position]
MemLocation(q, p) == q[p + 1]

\* listeners.indexOf(callback), 1-based; 0 when absent
IndexOf(ls, id) ==
  IF \E i \in 1..Len(ls) : ls[i].id = id
    THEN CHOOSE i \in 1..Len(ls) : ls[i].id = id /\ \A j \in 1..(i - 1) : ls[j].id # id
    ELSE 0

\* the function returned by listen(callback):
\* const index = listeners.indexOf(callback); if (index > -1) listeners.splice(index, 1)
Unsubscribe(ls, id) ==
  IF IndexOf(ls, id) > 0 THEN SpliceOne(ls, IndexOf(ls, id) - 1) ELSE ls

\* go: delta < 0 ? NavigationDirection.back : NavigationDirection.forward
Direction(delta) == IF delta < 0 THEN "back" ELSE "forward"

\* triggerListeners(to, from, {direction, delta}): for (const callback of
\* listeners) callback(to, from, info).  The loop walks the live array by
\* index; a callback registered as `once` calls its own unsubscribe function
\* when it is invoked.
RECURSIVE TriggerListeners(_, _, _, _, _)
TriggerListeners(ls, i, calls, unsub, info) ==
  IF i > Len(ls)
    THEN [listeners |-> ls, calls |-> calls, unsubscribed |-> unsub]
    ELSE LET cb == ls[i]
             call == [id |-> cb.id, to |-> info.to, from |-> info.from,
                      type |-> "pop", direction |-> info.direction,
                      delta |-> info.delta]
         IN  TriggerListeners(IF cb.once THEN Unsubscribe(ls, cb.id) ELSE ls,
                              i + 1, Append(calls, call),
                              IF cb.once THEN unsub \cup {cb.id} ELSE unsub, info)

Location == MemLocation(queue, position)

(***************************************************************************)
(* Route table of the model: /p with the children /p/x and /p/y, /a with   *)
(* the alias /a2, /b, /u/:id, /r redirecting to /a, and /l1 and /l2        *)
(* redirecting to each other, /r2 redirecting to /r; Q with the child Z and its alias Z2, whose   *)
(* components have leave and update guards of both kinds.                  *)
(***************************************************************************)
NoRec == "none"

RecordNames == {"P", "X", "Y", "A", "A2", "B", "U", "R", "R2", "L1", "L2", "Q", "Z", "Z2"}

\* RouteRecordNormalized: the fields the orchestrator reads
RouteRecord(r) ==
  [ redirect     |-> CASE r = "R" -> "/a" [] r = "L1" -> "/l2" [] r = "L2" -> "/l1"
                       [] r = "R2" -> "/r" [] OTHER -> NoRec,
    aliasOf      |-> CASE r = "A2" -> "A" [] r = "Z2" -> "Z" [] OTHER -> NoRec,
    leaveGuards  |-> IF r \in {"X", "Q", "Z", "Z2"} THEN 1 ELSE 0,
    updateGuards |-> IF r \in {"Q", "Z", "Z2"} THEN 1 ELSE 0,
    beforeEnter  |-> IF r = "X" THEN 1 ELSE 0,
    compLeave    |-> IF r \in {"Q", "Z", "Z2"} THEN 1 ELSE 0,
    compUpdate   |-> IF r \in {"P", "Q", "Z", "Z2"} THEN 1 ELSE 0,
    compEnter    |-> IF r = "Y" THEN 1 ELSE 0 ]

NoParams == [k \in {} |-> ""]

\* matcher.resolve({ path }): the matched chain and the params of a path
MatcherResolve(path) ==
  CASE path = "/p/x" -> [matched |-> <<"P", "X">>, params |-> NoParams]
    [] path = "/p/y" -> [matched |-> <<"P", "Y">>, params |-> NoParams]
    [] path = "/a"   -> [matched |-> <<"A">>, params |-> NoParams]
    [] path = "/a2"  -> [matched |-> <<"A2">>, params |-> NoParams]
    [] path = "/b"   -> [matched |-> <<"B">>, params |-> NoParams]
    [] path = "/u/1" -> [matched |-> <<"U">>, params |-> [id |-> "1"]]
    [] path = "/u/2" -> [matched |-> <<"U">>, params |-> [id |-> "2"]]
    [] path = "/u/a%20b" -> [matched |-> <<"U">>, params |-> [id |-> "a b"]]
    [] path = "/r"   -> [matched |-> <<"R">>, params |-> NoParams]
    [] path = "/r2"  -> [matched |-> <<"R2">>, params |-> NoParams]
    [] path = "/l1"  -> [matched |-> <<"L1">>, params |-> NoParams]
    [] path = "/l2"  -> [matched |-> <<"L2">>, params |-> NoParams]
    [] OTHER         -> [matched |-> <<>>, params |-> NoParams]

\* a raw location: a path, a query (ordered key/value pairs) and a hash
Raw(path, query, hash) == [path |-> path, query |-> query, hash |-> hash]

NoQuery == <<>>

\* no raw location (undefined)
NoRaw == Raw("none", NoQuery, "")

\* no redirectedFrom (undefined)
NoRef == [obj |-> <<-1, -1>>, fullPath |-> <<>>]

(***************************************************************************)
(* query.ts                                                                *)
(***************************************************************************)
\* stringifyQuery: the text as a sequence of pieces; a null value gives the
\* bare key, an undefined value nothing
StringifyQuery(query) ==
  LET F[i \in 0..Len(query)] ==
        IF i = 0 THEN <<>>
        ELSE LET kv == query[i]
                 sep == IF Len(F[i - 1]) > 0 THEN <<"&">> ELSE <<>>
             IN  CASE kv.value = "undefined" -> F[i - 1]
                   [] kv.value = "null" -> F[i - 1] \o sep \o <<kv.key>>
                   [] OTHER -> F[i - 1] \o sep \o <<kv.key, "=", kv.value>>
  IN  F[Len(query)]

\* parseQuery, over the pieces of the text: key = value & key ...
RECURSIVE ParseQuery(_)
ParseQuery(search) ==
  IF Len(search) = 0 THEN <<>>
  ELSE IF Len(search) >= 3 /\ search[2] = "="
    THEN <<[key |-> search[1], value |-> search[3]]>>
           \o ParseQuery(SubSeq(search, 5, Len(search)))
  ELSE <<[key |-> search[1], value |-> "null"]>>
         \o ParseQuery(SubSeq(search, 3, Len(search)))

(***************************************************************************)
(* location.ts                                                             *)
(***************************************************************************)
\* parseURL(parseQuery, location, currentLocation): the text is cut at the
\* first ? and at the #; an empty text resolves to the current path
ParseURL(location, currentPath) ==
  LET n == Len(location)
      hasSearch == n >= 2 /\ location[2] = "?"
  IN  IF n = 0 THEN [path |-> currentPath, query |-> <<>>, hash |-> ""]
      ELSE [ path |-> location[1],
             query |-> IF hasSearch THEN ParseQuery(SubSeq(location, 3, n - 1)) ELSE <<>>,
             hash |-> IF n >= 2 THEN location[n] ELSE "" ]

\* stringifyURL: path + (query && '?') + query + hash
StringifyURL(raw) ==
  LET q == StringifyQuery(raw.query)
  IN  <<raw.path>> \o (IF Len(q) > 0 THEN <<"?">> ELSE <<>>) \o q \o <<raw.hash>>

\* START_LOCATION_NORMALIZED; the object identity <<0, 0>>
StartObj == <<0, 0>>

START_LOCATION_NORMALIZED ==
  [ obj |-> StartObj, path |-> "/", query |-> NoQuery, hash |-> "",
    params |-> NoParams, matched |-> <<>>, fullPath |-> <<"/">>,
    redirectedFrom |-> NoRef ]

\* isSameRouteRecord: aliases compare as the record they alias
IsSameRouteRecord(a, b) ==
  LET ca == IF RouteRecord(a).aliasOf # NoRec THEN RouteRecord(a).aliasOf ELSE a
      cb == IF RouteRecord(b).aliasOf # NoRec THEN RouteRecord(b).aliasOf ELSE b
  IN  ca = cb

\* isSameRouteLocationParams, over string-valued params
IsSameRouteLocationParams(a, b) ==
  /\ Cardinality(DOMAIN a) = Cardinality(DOMAIN b)
  /\ \A key \in DOMAIN a : key \in DOMAIN b /\ a[key] = b[key]

\* isSameRouteLocation(stringifyQuery, a, b)
IsSameRouteLocation(a, b) ==
  LET aLastIndex == Len(a.matched) - 1
      bLastIndex == Len(b.matched) - 1
  IN  /\ aLastIndex > -1
      /\ aLastIndex = bLastIndex
      /\ IsSameRouteRecord(a.matched[aLastIndex + 1], b.matched[bLastIndex + 1])
      /\ IsSameRouteLocationParams(a.params, b.params)
      /\ StringifyQuery(a.query) = StringifyQuery(b.query)
      /\ a.hash = b.hash

(***************************************************************************)
(* router.ts : pure parts                                                  *)
(***************************************************************************)
\* resolve(rawLocation): a fresh location object; obj is its identity
Resolve(raw, obj) ==
  LET m == MatcherResolve(raw.path)
  IN  [ obj |-> obj, path |-> raw.path, query |-> raw.query, hash |-> raw.hash,
        params |-> m.params, matched |-> m.matched, fullPath |-> StringifyURL(raw),
        redirectedFrom |-> NoRef ]

\* handleRedirectRecord(to): the new raw target, or NoRaw; a string redirect
\* keeps the query and the hash of `to` and drops its params
HandleRedirectRecord(to) ==
  IF Len(to.matched) > 0 /\ RouteRecord(to.matched[Len(to.matched)]).redirect # NoRec
    THEN Raw(RouteRecord(to.matched[Len(to.matched)]).redirect, to.query, to.hash)
    ELSE NoRaw

\* extractChangingRecords(to, from): one pass over the indices of the longer
\* chain, pushing recordFrom to updatingRecords or leavingRecords and
\* recordTo to enteringRecords
ExtractChangingRecords(to, from) ==
  LET len == Max(Len(from.matched), Len(to.matched))
      InTo(r) == \E j \in 1..Len(to.matched) : IsSameRouteRecord(to.matched[j], r)
      InFrom(r) == \E j \in 1..Len(from.matched) : IsSameRouteRecord(from.matched[j], r)
      F[i \in 0..len] ==
        IF i = 0 THEN [leaving |-> <<>>, updating |-> <<>>, entering |-> <<>>]
        ELSE LET acc == F[i - 1]
                 hasFrom == i <= Len(from.matched)
                 hasTo == i <= Len(to.matched)
             IN  [ leaving  |-> IF hasFrom /\ ~InTo(from.matched[i])
                                  THEN Append(acc.leaving, from.matched[i])
                                  ELSE acc.leaving,
                   updating |-> IF hasFrom /\ InTo(from.matched[i])
                                  THEN Append(acc.updating, from.matched[i])
                                  ELSE acc.updating,
                   entering |-> IF hasTo /\ ~InFrom(to.matched[i])
                                  THEN Append(acc.entering, to.matched[i])
                                  ELSE acc.entering ]
  IN  F[len]

Reverse(s) == [i \in 1..Len(s) |-> s[Len(s) + 1 - i]]

\* one guard label per guard: count guards of `kind` for record r
GuardsOf(kind, r, count) == [i \in 1..count |-> [kind |-> kind, of |-> r]]

\* the guards of `records`, record by record
RECURSIVE GuardsOfRecords(_, _, _)
GuardsOfRecords(kind, records, field) ==
  IF records = <<>> THEN <<>>
  ELSE GuardsOf(kind, Head(records), RouteRecord(Head(records))[field])
         \o GuardsOfRecords(kind, Tail(records), field)

\* extractComponentsGuards(records, guardType, to, from)
ExtractComponentsGuards(records, guardType) ==
  GuardsOfRecords(guardType, records,
    CASE guardType = "beforeRouteLeave" -> "compLeave"
      [] guardType = "beforeRouteUpdate" -> "compUpdate"
      [] OTHER -> "compEnter")

\* the guards of a global registry, in list order
GlobalGuards(kind, list) == [i \in 1..Len(list) |-> [kind |-> kind, of |-> list[i]]]

Phases == 1..6

\* mutant: the before-enter guards are queued before the update guards
PhaseGuards_BeforeEnterFirst(phase, to, from, before, beforeResolve) ==
  LET ch == ExtractChangingRecords(to, from)
      leavingReversed == Reverse(ch.leaving)
  IN  CASE phase = 1 -> ExtractComponentsGuards(leavingReversed, "beforeRouteLeave")
                          \o GuardsOfRecords("leaveGuards", leavingReversed, "leaveGuards")
        [] phase = 2 -> GlobalGuards("beforeEach", before)
        [] phase = 4 -> ExtractComponentsGuards(ch.updating, "beforeRouteUpdate")
                          \o GuardsOfRecords("updateGuards", ch.updating, "updateGuards")
        [] phase = 3 -> GuardsOfRecords("beforeEnter", ch.entering, "beforeEnter")
        [] phase = 5 -> ExtractComponentsGuards(ch.entering, "beforeRouteEnter")
        [] OTHER     -> GlobalGuards("beforeResolve", beforeResolve)

\* navigate(to, from): the guards queued for each phase, before the
\* cancellation check that ends the phase
PhaseGuards(phase, to, from, before, beforeResolve) ==
  LET ch == ExtractChangingRecords(to, from)
      leavingReversed == Reverse(ch.leaving)
  IN  CASE phase = 1 -> ExtractComponentsGuards(leavingReversed, "beforeRouteLeave")
                          \o GuardsOfRecords("leaveGuards", leavingReversed, "leaveGuards")
        [] phase = 2 -> GlobalGuards("beforeEach", before)
        [] phase = 3 -> ExtractComponentsGuards(ch.updating, "beforeRouteUpdate")
                          \o GuardsOfRecords("updateGuards", ch.updating, "updateGuards")
        [] phase = 4 -> GuardsOfRecords("beforeEnter", ch.entering, "beforeEnter")
        [] phase = 5 -> ExtractComponentsGuards(ch.entering, "beforeRouteEnter")
        [] OTHER     -> GlobalGuards("beforeResolve", beforeResolve)

(***************************************************************************)
(* router.ts : the state of one navigation                                 *)
(***************************************************************************)
Navs == {1, 2, 3}

\* the navigations of the specification that makes four; navs is indexed by
\* these, and the ones a specification never starts stay idle
AllNavs == {1, 2, 3, 4}

\* the navigations of the specifications that make two
PairNavs == {1, 2}

\* __DEV__: the development build, in which the redirect counter exists
DEV == TRUE

\* the limit on _count in pushWithRedirect
MaxRedirects == 30

Resolved(failure) == [kind |-> "resolved", value |-> failure]

Rejected(error) == [kind |-> "rejected", value |-> error]

Pending == [kind |-> "pending", value |-> "none"]

\* push threw synchronously: no promise was returned
Threw(error) == [kind |-> "threw", value |-> error]

IdleNav ==
  [ pc |-> "idle",          \* idle, guard, check, caught, then, done
    phase |-> 0,            \* the phase of navigate() that is running
    gi |-> 0,               \* index in gq of the guard that is running
    gq |-> <<>>,            \* the guards queued for the phase
    to |-> START_LOCATION_NORMALIZED,
    from |-> START_LOCATION_NORMALIZED,
    replace |-> FALSE,
    force |-> FALSE,
    rfrom |-> NoRef,        \* the redirectedFrom argument of pushWithRedirect
    count |-> 0,            \* redirectedFrom._count
    objs |-> 0,             \* locations resolved so far by this navigation
    failure |-> "none",     \* what navigate() settled with
    redirTo |-> NoRaw,      \* failure.to of a NAVIGATION_GUARD_REDIRECT
    result |-> Pending,     \* the promise returned by push
    afterLog |-> <<>>,      \* calls of after hooks: guard and failure
    errLog |-> <<>>,        \* calls of error handlers
    histOps |-> <<>>,       \* calls of routerHistory.push / replace
    hops |-> 0,             \* observer: guard redirects followed
    sameHops |-> 0,         \* observer: of these, redirects to the same location
    commits |-> 0,          \* observer: assignments of currentRoute
    falsePhase |-> 0,       \* observer: phase of a guard that returned false
    stale |-> FALSE,        \* observer: superseded while waiting on a guard
    pop |-> FALSE,          \* started by the history listener, not by push
    delta |-> 0,            \* info.delta of the pop navigation
    viaPop |-> FALSE,       \* a push the listener made for a guard redirect
    origPos |-> 0 ]         \* observer: position before go(delta) was called

\* what redirectedFrom keeps of a location
RefOf(loc) == [obj |-> loc.obj, fullPath |-> loc.fullPath]

(***************************************************************************)
(* navigationGuards.ts : guardToPromiseFn, the outcome of one guard        *)
(***************************************************************************)
\* what a guard does: returns nothing, false or a raw location, or throws
Returns(kind) == [kind |-> kind, to |-> NoRaw]

RedirectsTo(raw) == [kind |-> "redirect", to |-> raw]

GuardToPromiseFn(ret) ==
  CASE ret.kind = "ok"    -> [failure |-> "none", to |-> NoRaw]
    [] ret.kind = "false" -> [failure |-> "aborted", to |-> NoRaw]
    [] ret.kind = "throw" -> [failure |-> "error", to |-> NoRaw]
    [] OTHER              -> [failure |-> "redirect", to |-> ret.to]

(***************************************************************************)
(* router.ts : isReady, markAsReady, triggerError                          *)
(***************************************************************************)
ReadyState == [ready |-> ready, listening |-> listening,
               readyHandlers |-> readyHandlers, waiters |-> waiters]

\* markAsReady(err)
MarkAsReady(st, err) ==
  IF ~st.ready
    THEN [ ready |-> (err = "none"),
           listening |-> TRUE,
           readyHandlers |-> <<>>,
           waiters |-> [w \in DOMAIN st.waiters |->
             IF w \in Range(st.readyHandlers)
               THEN [ state |-> IF err # "none" THEN "rejected" ELSE "resolved",
                      value |-> err,
                      settled |-> st.waiters[w].settled + 1 ]
               ELSE st.waiters[w]] ]
    ELSE st

\* triggerError: the calls handler(error, to, from), over errorListeners.list()
ErrorCalls(list, error, to, from) ==
  [i \in 1..Len(list) |->
     [handler |-> list[i], error |-> error, to |-> to.obj, from |-> from.obj]]

\* mutant: triggerAfterEach that skips the hooks when there is a failure
AfterCalls_OnlyOnSuccess(list, to, from, failure) ==
  IF failure = "none"
    THEN [i \in 1..Len(list) |->
           [guard |-> list[i], to |-> to.obj, from |-> from.obj, failure |-> failure]]
    ELSE <<>>

\* triggerAfterEach: the calls guard(to, from, failure), over afterGuards.list()
AfterCalls(list, to, from, failure) ==
  [i \in 1..Len(list) |->
     [guard |-> list[i], to |-> to.obj, from |-> from.obj, failure |-> failure]]

(***************************************************************************)
(* router.ts : pushWithRedirect, up to the call of navigate()              *)
(***************************************************************************)
\* mutant: every redirect of a route record overwrites redirectedFrom
RECURSIVE ResolveTarget_LastRedirect(_, _, _, _, _)
ResolveTarget_LastRedirect(n, objs, raw, rfrom, depth) ==
  LET k == objs + 1
      targetLocation == Resolve(raw, <<n, k>>)
      shouldRedirect == HandleRedirectRecord(targetLocation)
  IN  IF depth > StackLimit
        THEN [overflow |-> TRUE, to |-> targetLocation, rfrom |-> rfrom, objs |-> objs]
      ELSE IF shouldRedirect # NoRaw
        THEN ResolveTarget_LastRedirect(n, k, shouldRedirect, RefOf(targetLocation),
                                        depth + 1)
      ELSE [ overflow |-> FALSE,
             to |-> [targetLocation EXCEPT !.redirectedFrom = rfrom],
             rfrom |-> rfrom, objs |-> k ]

\* resolve the target and follow the redirects of the route records; every
\* hop is a nested call of pushWithRedirect
RECURSIVE ResolveTarget(_, _, _, _, _)
ResolveTarget(n, objs, raw, rfrom, depth) ==
  LET k == objs + 1
      targetLocation == Resolve(raw, <<n, k>>)
      shouldRedirect == HandleRedirectRecord(targetLocation)
  IN  IF depth > StackLimit
        THEN [overflow |-> TRUE, to |-> targetLocation, rfrom |-> rfrom, objs |-> objs]
      ELSE IF shouldRedirect # NoRaw
        THEN ResolveTarget(n, k, shouldRedirect,
               IF rfrom # NoRef THEN rfrom ELSE RefOf(targetLocation), depth + 1)
      ELSE [ overflow |-> FALSE,
             to |-> [targetLocation EXCEPT !.redirectedFrom = rfrom],
             rfrom |-> rfrom, objs |-> k ]

\* the navigation entering phase `phase` of navigate()
EnterPhase(nav, phase, before, beforeResolve) ==
  LET gq == PhaseGuards(phase, nav.to, nav.from, before, beforeResolve)
  IN  [nav EXCEPT !.phase = phase, !.gq = gq, !.gi = 1,
                  !.pc = IF Len(gq) > 0 THEN "guard" ELSE "check"]

\* mutant: the duplicate check ignores force
IsDuplicate_IgnoreForce(force, from, targetLocation) ==
  IsSameRouteLocation(from, targetLocation)

\* pushWithRedirect: !force && isSameRouteLocation(stringifyQuery, from, targetLocation)
IsDuplicate(force, from, targetLocation) ==
  ~force /\ IsSameRouteLocation(from, targetLocation)

\* mutant: replace is kept only by a location that was not redirected
PushWithRedirect_DropsReplace(n, nav, raw, replace, force, rfrom, from, before, beforeResolve, thrown) ==
  LET r == ResolveTarget(n, nav.objs, raw, rfrom, 0)
      nav1 == [nav EXCEPT !.to = r.to, !.from = from,
                          !.replace = replace /\ r.rfrom = NoRef,
                          !.force = force, !.rfrom = r.rfrom, !.objs = r.objs,
                          !.failure = "none", !.redirTo = NoRaw]
  IN  IF r.overflow
        THEN [nav1 EXCEPT !.pc = "done", !.result = thrown]
      ELSE IF IsDuplicate(force, from, r.to)
        THEN [nav1 EXCEPT !.pc = "then", !.failure = "duplicated"]
      ELSE EnterPhase(nav1, 1, before, beforeResolve)

\* pushWithRedirect(to, redirectedFrom) called for navigation `nav`, whose
\* promise chain it extends: the synchronous part
PushWithRedirect(n, nav, raw, replace, force, rfrom, from, before, beforeResolve, thrown) ==
  LET r == ResolveTarget(n, nav.objs, raw, rfrom, 0)
      nav1 == [nav EXCEPT !.to = r.to, !.from = from, !.replace = replace,
                          !.force = force, !.rfrom = r.rfrom, !.objs = r.objs,
                          !.failure = "none", !.redirTo = NoRaw]
  IN  IF r.overflow
        THEN [nav1 EXCEPT !.pc = "done", !.result = thrown]
      ELSE IF IsDuplicate(force, from, r.to)
        THEN [nav1 EXCEPT !.pc = "then", !.failure = "duplicated"]
      ELSE EnterPhase(nav1, 1, before, beforeResolve)

(***************************************************************************)
(* utils/callbacks.ts                                                      *)
(***************************************************************************)
\* useCallbacks().add(handler)
CallbacksAdd(handlers, handler) == Append(handlers, handler)

(***************************************************************************)
(* router.ts : the steps of a navigation                                   *)
(***************************************************************************)
\* checkCanceledNavigation(to, from)
CheckCanceledNavigation(pend, to) ==
  IF pend # to.obj THEN "cancelled" ELSE "none"

\* mutant: a guard that returns false does not stop the queue
RunGuard_FalseGoesOn(nav, ret) ==
  LET g == GuardToPromiseFn(ret)
  IN  IF g.failure \in {"none", "aborted"}
        THEN IF nav.gi < Len(nav.gq)
               THEN [nav EXCEPT !.gi = nav.gi + 1,
                       !.falsePhase = IF g.failure = "aborted" THEN nav.phase
                                      ELSE nav.falsePhase]
               ELSE [nav EXCEPT !.pc = "check",
                       !.falsePhase = IF g.failure = "aborted" THEN nav.phase
                                      ELSE nav.falsePhase]
        ELSE [nav EXCEPT !.pc = "caught", !.failure = g.failure, !.redirTo = g.to]

\* runGuardQueue: the guard at gi settles with what guardToPromiseFn gives
RunGuard(nav, ret) ==
  LET g == GuardToPromiseFn(ret)
  IN  IF g.failure = "none"
        THEN IF nav.gi < Len(nav.gq)
               THEN [nav EXCEPT !.gi = nav.gi + 1]
               ELSE [nav EXCEPT !.pc = "check"]
        ELSE [nav EXCEPT !.pc = "caught", !.failure = g.failure, !.redirTo = g.to,
                         !.falsePhase = IF g.failure = "aborted" THEN nav.phase
                                        ELSE nav.falsePhase]

\* canceledNavigationCheck at the end of a phase, and the start of the next
EndPhase(nav, pend, before, beforeResolve) ==
  IF CheckCanceledNavigation(pend, nav.to) # "none"
    THEN [nav EXCEPT !.pc = "then", !.failure = "cancelled"]
  ELSE IF nav.phase < 6
    THEN EnterPhase(nav, nav.phase + 1, before, beforeResolve)
  ELSE [nav EXCEPT !.pc = "then", !.failure = "none"]

\* the guard redirect is one more redirect to the location the navigation
\* is already heading to, and the chain has a redirectedFrom to count on
CountsRedirect(nav) ==
  /\ DEV
  /\ IsSameRouteLocation(Resolve(nav.redirTo, <<0, 1>>), nav.to)
  /\ nav.rfrom # NoRef

\* (redirectedFrom._count = redirectedFrom._count ? _count + 1 : 1) > 30
TooManyRedirects(nav) == CountsRedirect(nav) /\ nav.count + 1 > MaxRedirects

\* mutant: finalizeNavigation without the check for a more recent navigation
FinalizeFailure_NoCheck(pend, toLocation) == "none"

\* finalizeNavigation: const error = checkCanceledNavigation(toLocation, from)
FinalizeFailure(pend, toLocation) == CheckCanceledNavigation(pend, toLocation)

\* mutant: the first navigation is pushed like any other
FinalizeHistory_PushOnFirst(q, p, toLocation, from, replace) ==
  IF replace
    THEN [op |-> "replace", h |-> MemReplace(q, p, toLocation.fullPath)]
    ELSE [op |-> "push", h |-> MemPush(q, p, toLocation.fullPath)]

\* finalizeNavigation(toLocation, from, true, replace): the history call
FinalizeHistory(q, p, toLocation, from, replace) ==
  IF replace \/ from.obj = StartObj
    THEN [op |-> "replace", h |-> MemReplace(q, p, toLocation.fullPath)]
    ELSE [op |-> "push", h |-> MemPush(q, p, toLocation.fullPath)]

NextNav(n) == navs[n].pc = "idle" /\ \A m \in AllNavs : m < n => navs[m].pc # "idle"

InFlight == {m \in AllNavs : navs[m].pc \notin {"idle", "done"}}

\* router.push(to), router.replace(to), and to.force
Push(n, raw, replace, force, maxInFlight) ==
  /\ NextNav(n)
  /\ Cardinality(InFlight) < maxInFlight
  /\ LET nav == PushWithRedirect(n, navs[n], raw, replace, force, NoRef, currentRoute,
                                 beforeGuards, beforeResolveGuards, Threw("RangeError"))
     IN  /\ navs' = [m \in AllNavs |->
                      IF m = n THEN nav
                      ELSE IF navs[m].pc = "guard" /\ nav.pc # "done"
                        THEN [navs[m] EXCEPT !.stale = TRUE]
                      ELSE navs[m]]
         /\ pendingLocation' = <<n, nav.objs>>
  /\ UNCHANGED <<histVars, obsVars, fnVars, currentRoute, regVars, readyVars>>

\* a guard of navigation n settles
GuardRun(n, ret, maxHops) ==
  /\ navs[n].pc = "guard"
  /\ ret.kind = "redirect" => navs[n].hops < maxHops
  /\ navs' = [navs EXCEPT ![n] = RunGuard(navs[n], ret)]
  /\ UNCHANGED <<histVars, obsVars, fnVars, currentRoute, pendingLocation, regVars, readyVars>>

\* the cancellation check that ends a phase of navigate()
PhaseEnd(n) ==
  /\ navs[n].pc = "check"
  /\ navs' = [navs EXCEPT ![n] =
                EndPhase(navs[n], pendingLocation, beforeGuards, beforeResolveGuards)]
  /\ UNCHANGED <<histVars, obsVars, fnVars, currentRoute, pendingLocation, regVars, readyVars>>

\* mutant: every rejection of navigate() is treated as an unknown error
CatchNav_AllErrors(nav, handlers) ==
  IF nav.failure # "redirect"
    THEN [nav EXCEPT !.pc = "done", !.result = Rejected(nav.failure),
            !.errLog = ErrorCalls(handlers, nav.failure, nav.to, nav.from)]
    ELSE [nav EXCEPT !.pc = "then"]

\* pushWithRedirect: .catch(error => isNavigationFailure(error) ? ... :
\* triggerError(error, toLocation, from)); a failure goes on to the .then(),
\* an unknown error is handed to the error handlers and rejects the promise
CatchNav(nav, handlers) ==
  IF nav.failure = "error"
    THEN [nav EXCEPT !.pc = "done", !.result = Rejected("error"),
            !.errLog = ErrorCalls(handlers, "error", nav.to, nav.from)]
    ELSE [nav EXCEPT !.pc = "then"]

\* pushWithRedirect: the .catch() after navigate()
Catch(n) ==
  /\ navs[n].pc = "caught"
  /\ ~navs[n].pop
  /\ LET nav == navs[n]
         st == IF nav.failure = "redirect" THEN ReadyState
               ELSE MarkAsReady(ReadyState, nav.failure)
     IN  /\ navs' = [navs EXCEPT ![n] = CatchNav(nav, errorListeners)]
         /\ ready' = st.ready
         /\ listening' = st.listening
         /\ readyHandlers' = st.readyHandlers
         /\ waiters' = st.waiters
  /\ UNCHANGED <<histVars, obsVars, fnVars, currentRoute, pendingLocation, regVars>>

\* pushWithRedirect: the .then() of a guard redirect
ThenRedirect(n) ==
  /\ navs[n].pc = "then"
  /\ ~navs[n].pop
  /\ navs[n].failure = "redirect"
  /\ LET nav == navs[n]
         same == IsSameRouteLocation(Resolve(nav.redirTo, <<0, 1>>), nav.to)
         counted == [nav EXCEPT !.count = IF CountsRedirect(nav) THEN nav.count + 1
                                          ELSE nav.count]
         followed == [counted EXCEPT !.hops = nav.hops + 1,
                        !.sameHops = IF same THEN nav.sameHops + 1 ELSE nav.sameHops]
         next == IF TooManyRedirects(nav)
                   THEN [counted EXCEPT !.pc = "done",
                                        !.result = Rejected("infiniteRedirect")]
                   ELSE PushWithRedirect(n, followed, nav.redirTo, nav.replace, nav.force,
                          IF nav.rfrom # NoRef THEN nav.rfrom ELSE RefOf(nav.to),
                          currentRoute, beforeGuards, beforeResolveGuards,
                          Rejected("RangeError"))
     IN  /\ navs' = [navs EXCEPT ![n] = next]
         /\ pendingLocation' = IF TooManyRedirects(nav) THEN pendingLocation
                               ELSE <<n, next.objs>>
  /\ UNCHANGED <<histVars, obsVars, fnVars, currentRoute, regVars, readyVars>>

\* pushWithRedirect: the .then() of a failure that is no redirect
ThenFailure(n) ==
  /\ navs[n].pc = "then"
  /\ ~navs[n].pop
  /\ navs[n].failure \notin {"redirect", "none"}
  /\ LET nav == navs[n]
     IN  navs' = [navs EXCEPT ![n] =
                    [nav EXCEPT !.pc = "done", !.result = Resolved(nav.failure),
                       !.afterLog = AfterCalls(afterGuards, nav.to, nav.from, nav.failure)]]
  /\ UNCHANGED <<histVars, obsVars, fnVars, currentRoute, pendingLocation, regVars, readyVars>>

\* pushWithRedirect: the .then() after a navigate() that went through:
\* finalizeNavigation and triggerAfterEach
ThenFinalize(n) ==
  /\ navs[n].pc = "then"
  /\ ~navs[n].pop
  /\ navs[n].failure = "none"
  /\ LET nav == navs[n]
         failure == FinalizeFailure(pendingLocation, nav.to)
         hist == FinalizeHistory(queue, position, nav.to, nav.from, nav.replace)
         st == MarkAsReady(ReadyState, "none")
         done == [nav EXCEPT !.pc = "done", !.result = Resolved(failure),
                    !.afterLog = AfterCalls(afterGuards, nav.to, nav.from, failure)]
     IN  IF failure # "none"
           THEN /\ navs' = [navs EXCEPT ![n] = done]
                /\ UNCHANGED <<histVars, currentRoute, readyVars>>
           ELSE /\ navs' = [navs EXCEPT ![n] =
                             [done EXCEPT !.histOps = Append(nav.histOps, hist.op),
                                          !.commits = nav.commits + 1]]
                /\ queue' = hist.h.queue
                /\ position' = hist.h.position
                /\ listeners' = listeners
                /\ currentRoute' = nav.to
                /\ ready' = st.ready
                /\ listening' = st.listening
                /\ readyHandlers' = st.readyHandlers
                /\ waiters' = st.waiters
  /\ UNCHANGED <<obsVars, fnVars, pendingLocation, regVars>>

(***************************************************************************)
(* router.ts : router.go and the history listener of setupListeners        *)
(***************************************************************************)
\* router.go(delta): routerHistory.go(delta), and the callback registered by
\* setupListeners up to its call of navigate()
RouterGo(n, delta, maxInFlight) ==
  /\ NextNav(n)
  /\ Cardinality(InFlight) < maxInFlight
  /\ LET p == MemGo(queue, position, delta)
         to == MemLocation(queue, p)
         nav == navs[n]
         toLocation == Resolve(ParseURL(to, currentRoute.path), <<n, nav.objs + 1>>)
         shouldRedirect == HandleRedirectRecord(toLocation)
         started == [nav EXCEPT !.to = toLocation, !.from = currentRoute,
                       !.objs = nav.objs + 1, !.pop = TRUE, !.delta = delta,
                       !.origPos = position]
         redirected == PushWithRedirect(n, [nav EXCEPT !.objs = nav.objs + 1,
                           !.delta = delta, !.origPos = position],
                         shouldRedirect, TRUE, TRUE, RefOf(toLocation), currentRoute,
                         beforeGuards, beforeResolveGuards, Rejected("RangeError"))
     IN  /\ position' = p
         /\ IF ~listening
              THEN UNCHANGED <<navs, pendingLocation>>
              ELSE IF shouldRedirect # NoRaw
                THEN /\ navs' = [navs EXCEPT ![n] = redirected]
                     /\ pendingLocation' = <<n, redirected.objs>>
                ELSE /\ navs' = [navs EXCEPT ![n] =
                                   EnterPhase(started, 1, beforeGuards, beforeResolveGuards)]
                     /\ pendingLocation' = toLocation.obj
  /\ UNCHANGED <<queue, listeners, obsVars, fnVars, currentRoute, regVars, readyVars>>

\* the listener's .catch of an unknown error:
\* if (info.delta) routerHistory.go(-info.delta, false)
PopCatchPosition(nav, q, p) ==
  IF nav.failure = "error" /\ nav.delta # 0 THEN MemGo(q, p, -nav.delta) ELSE p

\* the listener: navigate(toLocation, from).catch(...)
PopCatch(n) ==
  /\ navs[n].pc = "caught"
  /\ navs[n].pop
  /\ LET nav == navs[n]
         st == IF nav.failure = "error" THEN MarkAsReady(ReadyState, "error")
               ELSE ReadyState
         pushed == PushWithRedirect(n,
                     [nav EXCEPT !.pop = FALSE, !.viaPop = TRUE, !.hops = nav.hops + 1],
                     nav.redirTo, FALSE, TRUE, RefOf(nav.to), currentRoute,
                     beforeGuards, beforeResolveGuards, Rejected("RangeError"))
     IN  /\ navs' = [navs EXCEPT ![n] =
                      CASE nav.failure = "redirect" -> pushed
                        [] nav.failure = "error" ->
                             [nav EXCEPT !.pc = "done", !.result = Rejected("error"),
                                !.errLog = ErrorCalls(errorListeners, "error",
                                                      nav.to, nav.from)]
                        [] OTHER -> [nav EXCEPT !.pc = "then"]]
         /\ pendingLocation' = IF nav.failure = "redirect" THEN <<n, pushed.objs>>
                               ELSE pendingLocation
         /\ position' = PopCatchPosition(nav, queue, position)
         /\ ready' = st.ready
         /\ listening' = st.listening
         /\ readyHandlers' = st.readyHandlers
         /\ waiters' = st.waiters
  /\ UNCHANGED <<queue, listeners, obsVars, fnVars, currentRoute, regVars>>

\* mutant: a cancelled navigation is reverted like any other failure
PopThenPosition_RevertsCancelled(nav, failure, q, p) ==
  IF failure = "none" THEN p
  ELSE IF nav.delta # 0 THEN MemGo(q, p, -nav.delta)
  ELSE IF failure \in {"aborted", "duplicated"} THEN MemGo(q, p, -1)
  ELSE p

\* the listener's .then: the history movement is reverted on a failure
PopThenPosition(nav, failure, q, p) ==
  IF failure = "none" THEN p
  ELSE IF nav.delta # 0 /\ failure # "cancelled" THEN MemGo(q, p, -nav.delta)
  ELSE IF failure \in {"aborted", "duplicated"} THEN MemGo(q, p, -1)
  ELSE p

\* the listener: .then(failure => failure || finalizeNavigation(toLocation,
\* from, false)), the revert, triggerAfterEach
PopThen(n) ==
  /\ navs[n].pc = "then"
  /\ navs[n].pop
  /\ LET nav == navs[n]
         failure == IF nav.failure # "none" THEN nav.failure
                    ELSE FinalizeFailure(pendingLocation, nav.to)
         st == IF failure = "none" THEN MarkAsReady(ReadyState, "none") ELSE ReadyState
     IN  /\ navs' = [navs EXCEPT ![n] =
                      [nav EXCEPT !.pc = "done", !.result = Resolved(failure),
                         !.commits = IF failure = "none" THEN nav.commits + 1
                                     ELSE nav.commits,
                         !.afterLog = AfterCalls(afterGuards, nav.to, nav.from, failure)]]
         /\ currentRoute' = IF failure = "none" THEN nav.to ELSE currentRoute
         /\ position' = PopThenPosition(nav, failure, queue, position)
         /\ ready' = st.ready
         /\ listening' = st.listening
         /\ readyHandlers' = st.readyHandlers
         /\ waiters' = st.waiters
  /\ UNCHANGED <<queue, listeners, obsVars, fnVars, pendingLocation, regVars>>

\* the listener: the .then after the pushWithRedirect made for a guard
\* redirect; a failed push of an unknown direction goes back one entry
PopRedirectSettled(n) ==
  /\ navs[n].pc = "done"
  /\ navs[n].viaPop
  /\ navs[n].result.kind = "resolved"
  /\ navs' = [navs EXCEPT ![n].viaPop = FALSE]
  /\ position' = IF navs[n].result.value \in {"aborted", "duplicated"}
                     /\ navs[n].delta = 0
                   THEN MemGo(queue, position, -1) ELSE position
  /\ UNCHANGED <<queue, listeners, obsVars, fnVars, currentRoute, pendingLocation, regVars,
                 readyVars>>

\* handlers h+1 .. k added to a list that holds h of them
RECURSIVE AddAll(_, _)
AddAll(handlers, k) ==
  IF Len(handlers) >= k THEN handlers
  ELSE AddAll(CallbacksAdd(handlers, Len(handlers) + 1), k)

\* the application registers its hooks, in one synchronous block of calls of
\* router.beforeEach, router.beforeResolve, router.afterEach, router.onError
Install ==
  /\ beforeGuards = <<>> /\ beforeResolveGuards = <<>>
  /\ afterGuards = <<>> /\ errorListeners = <<>>
  /\ beforeGuards' = AddAll(beforeGuards, MaxGuards)
  /\ beforeResolveGuards' = AddAll(beforeResolveGuards, MaxGuards)
  /\ afterGuards' = AddAll(afterGuards, MaxAfter)
  /\ errorListeners' = AddAll(errorListeners, MaxErr)
  /\ UNCHANGED <<histVars, obsVars, fnVars, currentRoute, pendingLocation, readyVars, navs>>

Waiters == 1..MaxWaiters

\* router.isReady(), called for the w-th time
IsReady(w) ==
  /\ waiters[w].state = "none"
  /\ \A v \in Waiters : v < w => waiters[v].state # "none"
  /\ IF ready /\ currentRoute.obj # StartObj
       THEN /\ waiters' = [waiters EXCEPT ![w] =
                             [state |-> "resolved", value |-> "none", settled |-> 1]]
            /\ readyHandlers' = readyHandlers
       ELSE /\ waiters' = [waiters EXCEPT ![w].state = "pending"]
            /\ readyHandlers' = CallbacksAdd(readyHandlers, w)
  /\ UNCHANGED <<histVars, obsVars, fnVars, currentRoute, pendingLocation, regVars, ready,
                 listening, navs>>

RouterInit ==
  /\ currentRoute = START_LOCATION_NORMALIZED
  /\ pendingLocation = StartObj
  /\ beforeGuards = <<>>
  /\ beforeResolveGuards = <<>>
  /\ afterGuards = <<>>
  /\ errorListeners = <<>>
  /\ readyHandlers = <<>>
  /\ ready = FALSE
  /\ listening = FALSE
  /\ waiters = [w \in Waiters |-> [state |-> "none", value |-> "none", settled |-> 0]]
  /\ navs = [n \in AllNavs |-> IdleNav]
  /\ matchers = <<>>
  /\ matcherMap = [name \in {"x", "y"} |-> 0]
  /\ created = 0

(***************************************************************************)
(* Direct use of the in-memory history                                     *)
(***************************************************************************)
HistoryLocs == {<<"/a">>, <<"/b">>, <<"/c">>}

Deltas == {-2, -1, 0, 1, 2}

\* the scripted scenario of the history contract
ScriptOps ==
  << [op |-> "push", arg |-> <<"/a">>], [op |-> "push", arg |-> <<"/b">>],
     [op |-> "go", arg |-> -1],     [op |-> "push", arg |-> <<"/c">>],
     [op |-> "go", arg |-> 1] >>

ScriptNext(s, o) ==
  IF s >= 0 /\ s < Len(ScriptOps) /\ ScriptOps[s + 1] = o THEN s + 1
  ELSE IF s >= Len(ScriptOps) /\ o.op = "go" THEN Len(ScriptOps) + 1
  ELSE -1

HPush(to) ==
  /\ Len(queue) < MaxQueue
  /\ LET r == MemPush(queue, position, to)
         o == [op |-> "push", arg |-> to]
     IN  /\ queue' = r.queue
         /\ position' = r.position
         /\ lastOp' = o
         /\ script' = ScriptNext(script, o)
         /\ UNCHANGED <<listeners, unsubscribed, lastGo, routerVars, fnVars>>

HReplace(to) ==
  LET r == MemReplace(queue, position, to)
      o == [op |-> "replace", arg |-> to]
  IN  /\ queue' = r.queue
      /\ position' = r.position
      /\ lastOp' = o
      /\ script' = ScriptNext(script, o)
      /\ UNCHANGED <<listeners, unsubscribed, lastGo, routerVars, fnVars>>

\* routerHistory.go(delta, shouldTrigger)
HGo(delta, shouldTrigger) ==
  LET o == [op |-> "go", arg |-> delta]
      from == MemLocation(queue, position)
      p == MemGo(queue, position, delta)
      info == [to |-> MemLocation(queue, p), from |-> from,
               direction |-> Direction(delta), delta |-> delta]
      t == IF shouldTrigger
             THEN TriggerListeners(listeners, 1, <<>>, unsubscribed, info)
             ELSE [listeners |-> listeners, calls |-> <<>>, unsubscribed |-> unsubscribed]
  IN  /\ position' = p
      /\ queue' = queue
      /\ listeners' = t.listeners
      /\ unsubscribed' = t.unsubscribed
      /\ lastGo' = [called |-> TRUE, delta |-> delta, trigger |-> shouldTrigger,
                    registered |-> [i \in 1..Len(listeners) |-> listeners[i].id],
                    unsubscribed |-> unsubscribed,
                    from |-> from, to |-> MemLocation(queue, p), calls |-> t.calls]
      /\ lastOp' = o
      /\ script' = ScriptNext(script, o)
      /\ UNCHANGED <<routerVars, fnVars>>

ListenerIds == 1..MaxListeners

\* routerHistory.listen(callback), with a callback not registered before
HListen(id, once) ==
  /\ \A i \in 1..Len(listeners) : listeners[i].id # id
  /\ id \notin unsubscribed
  /\ \A j \in ListenerIds : j < id =>
        (j \in unsubscribed \/ \E i \in 1..Len(listeners) : listeners[i].id = j)
  /\ listeners' = Append(listeners, [id |-> id, once |-> once])
  /\ lastOp' = [op |-> "listen", arg |-> id]
  /\ script' = ScriptNext(script, lastOp')
  /\ UNCHANGED <<queue, position, unsubscribed, lastGo, routerVars, fnVars>>

\* a call of the function that listen(callback) returned
HUnlisten(id) ==
  /\ \E i \in 1..Len(listeners) : listeners[i].id = id
  /\ listeners' = Unsubscribe(listeners, id)
  /\ unsubscribed' = unsubscribed \cup {id}
  /\ lastOp' = [op |-> "unlisten", arg |-> id]
  /\ script' = ScriptNext(script, lastOp')
  /\ UNCHANGED <<queue, position, lastGo, routerVars, fnVars>>

HDestroy ==
  LET o == [op |-> "destroy", arg |-> 0]
  IN  /\ queue' = <<START>>
      /\ position' = 0
      /\ listeners' = <<>>
      /\ lastOp' = o
      /\ script' = ScriptNext(script, o)
      /\ UNCHANGED <<unsubscribed, lastGo, routerVars, fnVars>>

HistInit ==
  /\ queue = <<START>>
  /\ position = 0
  /\ listeners = <<>>
  /\ lastOp = [op |-> "none", arg |-> 0]
  /\ script = 0
  /\ unsubscribed = {}
  /\ lastGo = [called |-> FALSE, delta |-> 0, trigger |-> FALSE, registered |-> <<>>,
               unsubscribed |-> {}, from |-> START, to |-> START, calls |-> <<>>]

\* no function of the matcher is under study
NoInput == [fn |-> "none"]

NotRun == [status |-> "none"]

Init == HistInit /\ RouterInit /\ input = NoInput /\ output = NotRun

HistNext ==
  \/ \E to \in HistoryLocs : HPush(to)
  \/ \E to \in HistoryLocs : HReplace(to)
  \/ \E delta \in Deltas : HGo(delta, TRUE)
  \/ HDestroy

SpecHist == Init /\ [][HistNext]_vars

(***************************************************************************)
(* The in-memory history with callbacks registered by listen               *)
(***************************************************************************)
ListenLocs == {<<"/a">>}

ListenDeltas == {-1, 0, 1}

ListenNext ==
  \/ \E to \in ListenLocs : HPush(to)
  \/ \E delta \in ListenDeltas, shouldTrigger \in BOOLEAN : HGo(delta, shouldTrigger)
  \/ \E id \in ListenerIds, once \in BOOLEAN : HListen(id, once)
  \/ \E id \in ListenerIds : HUnlisten(id)

SpecListen == Init /\ [][ListenNext]_vars

(***************************************************************************)
(* The router with two navigations that may overlap                        *)
(***************************************************************************)
PushTargets == {Raw("/p/x", NoQuery, ""), Raw("/p/y", NoQuery, "")}

RedirectTargets == {Raw("/p/y", NoQuery, "")}

GuardReturns ==
  {Returns("ok"), Returns("false"), Returns("throw")}
    \cup {RedirectsTo(raw) : raw \in RedirectTargets}

Next ==
  \/ \E n \in PairNavs, raw \in PushTargets, replace \in BOOLEAN :
       Push(n, raw, replace, FALSE, 2)
  \/ \E n \in PairNavs, ret \in GuardReturns : GuardRun(n, ret, MaxHops)
  \/ \E n \in PairNavs : PhaseEnd(n)
  \/ \E n \in PairNavs : Catch(n)
  \/ \E n \in PairNavs : ThenRedirect(n)
  \/ \E n \in PairNavs : ThenFailure(n)
  \/ \E n \in PairNavs : ThenFinalize(n)
  \/ Install

Spec == Init /\ [][Next]_vars

(***************************************************************************)
(* The router with two navigations, the second started after the first     *)
(* has settled, over targets that differ in hash, params, query and alias  *)
(***************************************************************************)
SeqTargets ==
  { Raw("/p/x", NoQuery, ""), Raw("/p/x", NoQuery, "#h"),
    Raw("/p/x", <<[key |-> "q", value |-> "1"]>>, ""),
    Raw("/u/1", NoQuery, ""), Raw("/u/2", NoQuery, ""),
    Raw("/a", NoQuery, ""), Raw("/a2", NoQuery, ""), Raw("/none", NoQuery, "") }

SeqGuardReturns ==
  {Returns("ok"), Returns("false"), Returns("throw"), RedirectsTo(Raw("/a", NoQuery, ""))}

NextSeq ==
  \/ \E n \in PairNavs, raw \in SeqTargets, force \in BOOLEAN :
       Push(n, raw, FALSE, force, 1)
  \/ \E n \in PairNavs, ret \in SeqGuardReturns : GuardRun(n, ret, MaxHops)
  \/ \E n \in PairNavs : PhaseEnd(n)
  \/ \E n \in PairNavs : Catch(n)
  \/ \E n \in PairNavs : ThenRedirect(n)
  \/ \E n \in PairNavs : ThenFailure(n)
  \/ \E n \in PairNavs : ThenFinalize(n)
  \/ Install

SpecSeq == Init /\ [][NextSeq]_vars

(***************************************************************************)
(* The router with one navigation that guards redirect again and again     *)
(***************************************************************************)
LoopTargets == {Raw("/a", NoQuery, ""), Raw("/b", NoQuery, ""), Raw("/l1", NoQuery, "")}

LoopGuardReturns ==
  { Returns("ok"), Returns("false"), Returns("throw"),
    RedirectsTo(Raw("/a", NoQuery, "")), RedirectsTo(Raw("/b", NoQuery, "")) }

NextLoop ==
  \/ \E raw \in LoopTargets : Push(1, raw, FALSE, FALSE, 1)
  \/ \E ret \in LoopGuardReturns : GuardRun(1, ret, LoopHops)
  \/ PhaseEnd(1)
  \/ Catch(1)
  \/ ThenRedirect(1)
  \/ ThenFailure(1)
  \/ ThenFinalize(1)
  \/ Install
  \/ \E w \in Waiters : IsReady(w)

SpecLoop == Init /\ [][NextLoop]_vars

(***************************************************************************)
(* The router with navigations made one after the other by push and by     *)
(* router.go                                                               *)
(***************************************************************************)
PopTargets == {Raw("/a", NoQuery, ""), Raw("/b", NoQuery, "")}

PopDeltas == {-2, -1, 0, 1, 2}

PopGuardReturns ==
  {Returns("ok"), Returns("false"), Returns("throw"), RedirectsTo(Raw("/a", NoQuery, ""))}

NextPop ==
  \/ \E n \in Navs, raw \in PopTargets : Push(n, raw, FALSE, FALSE, 1)
  \/ \E n \in Navs, delta \in PopDeltas : RouterGo(n, delta, 1)
  \/ \E n \in Navs, ret \in PopGuardReturns : GuardRun(n, ret, MaxHops)
  \/ \E n \in Navs : PhaseEnd(n)
  \/ \E n \in Navs : Catch(n)
  \/ \E n \in Navs : ThenRedirect(n)
  \/ \E n \in Navs : ThenFailure(n)
  \/ \E n \in Navs : ThenFinalize(n)
  \/ \E n \in Navs : PopCatch(n)
  \/ \E n \in Navs : PopThen(n)
  \/ \E n \in Navs : PopRedirectSettled(n)
  \/ Install

SpecPop == Init /\ [][NextPop]_vars

(***************************************************************************)
(* matcher/pathTokenizer.ts : tokenizePath                                 *)
(* A path is the sequence of its characters.                               *)
(***************************************************************************)
\* const VALID_PARAM_RE = /[a-zA-Z0-9_]/, over the characters used
ValidParamChars == {"a", "b"}

IsModifier(char) == char \in {"*", "?", "+"}

StaticToken(value) ==
  [type |-> "static", value |-> value, regexp |-> <<>>,
   repeatable |-> FALSE, optional |-> FALSE]

ParamToken(value, regexp, repeatable, optional) ==
  [type |-> "param", value |-> value, regexp |-> regexp,
   repeatable |-> repeatable, optional |-> optional]

\* const ROOT_TOKEN
ROOT_TOKEN == StaticToken(<<>>)

\* the locals of tokenizePath before the loop
TokenizerStart ==
  [ i |-> 0, state |-> "Static", previousState |-> "Static", tokens |-> <<>>,
    segment |-> <<>>, hasSegment |-> FALSE, char |-> "", buffer |-> <<>>,
    customRe |-> <<>>, crashed |-> "" ]

\* finalizeSegment(): if (segment) tokens.push(segment); segment = []
FinalizeSegment(t) ==
  [t EXCEPT !.tokens = IF t.hasSegment THEN Append(t.tokens, t.segment) ELSE t.tokens,
            !.segment = <<>>, !.hasSegment = TRUE]

\* mutant: consumeBuffer that refuses a parameter whose name stopped at a
\* character that is not a modifier
ConsumeBuffer_StrictName(t) ==
  IF t.state = "Param" /\ t.char \notin ValidParamChars /\ ~IsModifier(t.char)
    THEN [t EXCEPT !.crashed = "Invalid param name"]
  ELSE IF Len(t.buffer) = 0 THEN t
  ELSE IF t.state = "Static"
    THEN [t EXCEPT !.segment = Append(t.segment, StaticToken(t.buffer)),
                   !.buffer = <<>>]
  ELSE [t EXCEPT !.segment = Append(t.segment,
                   ParamToken(t.buffer, t.customRe, t.char \in {"*", "+"},
                              t.char \in {"*", "?"})),
                 !.buffer = <<>>]

\* consumeBuffer(), reading the state, the buffer and the last char read
ConsumeBuffer(t) ==
  IF Len(t.buffer) = 0 THEN t
  ELSE IF t.state = "Static"
    THEN [t EXCEPT !.segment = Append(t.segment, StaticToken(t.buffer)),
                   !.buffer = <<>>]
  ELSE IF t.state \in {"Param", "ParamRegExp", "ParamRegExpEnd"}
    THEN IF Len(t.segment) > 1 /\ t.char \in {"*", "+"}
           THEN [t EXCEPT !.crashed = "A repeatable param must be alone in its segment"]
           ELSE [t EXCEPT !.segment = Append(t.segment,
                            ParamToken(t.buffer, t.customRe, t.char \in {"*", "+"},
                                       t.char \in {"*", "?"})),
                          !.buffer = <<>>]
  ELSE [t EXCEPT !.crashed = "Invalid state to consume buffer"]

\* mutant: the step back from a parameter name leaves the state as it is
TokenizerStep_BackWithoutStatic(t0, path) ==
  LET char == path[t0.i + 1]
      t == [t0 EXCEPT !.i = t0.i + 1, !.char = char]
  IN  IF char = "\\" /\ t.state # "ParamRegExp"
        THEN [t EXCEPT !.previousState = t.state, !.state = "EscapeNext"]
      ELSE CASE t.state = "Static" ->
                  IF char = "/" THEN FinalizeSegment(ConsumeBuffer(t))
                  ELSE IF char = ":"
                    THEN [ConsumeBuffer(t) EXCEPT !.state = "Param"]
                  ELSE [t EXCEPT !.buffer = Append(t.buffer, char)]
             [] t.state = "EscapeNext" ->
                  [t EXCEPT !.buffer = Append(t.buffer, char),
                            !.state = t.previousState]
             [] t.state = "Param" ->
                  IF char = "(" THEN [t EXCEPT !.state = "ParamRegExp"]
                  ELSE IF char \in ValidParamChars
                    THEN [t EXCEPT !.buffer = Append(t.buffer, char)]
                  ELSE [ConsumeBuffer(t) EXCEPT
                          !.state = IF IsModifier(char) THEN "Static" ELSE "Param",
                          !.i = IF IsModifier(char) THEN t.i ELSE t.i - 1]
             [] t.state = "ParamRegExp" ->
                  IF char = ")"
                    THEN IF Len(t.customRe) > 0 /\ t.customRe[Len(t.customRe)] = "\\"
                           THEN [t EXCEPT !.customRe =
                                   Append(SubSeq(t.customRe, 1, Len(t.customRe) - 1), char)]
                           ELSE [t EXCEPT !.state = "ParamRegExpEnd"]
                    ELSE [t EXCEPT !.customRe = Append(t.customRe, char)]
             [] OTHER ->
                  [ConsumeBuffer(t) EXCEPT !.state = "Static",
                     !.i = IF IsModifier(char) THEN t.i ELSE t.i - 1,
                     !.customRe = <<>>]

\* one turn of the loop while (i < path.length), with char = path[i++]
TokenizerStep(t0, path) ==
  LET char == path[t0.i + 1]
      t == [t0 EXCEPT !.i = t0.i + 1, !.char = char]
  IN  IF char = "\\" /\ t.state # "ParamRegExp"
        THEN [t EXCEPT !.previousState = t.state, !.state = "EscapeNext"]
      ELSE CASE t.state = "Static" ->
                  IF char = "/" THEN FinalizeSegment(ConsumeBuffer(t))
                  ELSE IF char = ":"
                    THEN [ConsumeBuffer(t) EXCEPT !.state = "Param"]
                  ELSE [t EXCEPT !.buffer = Append(t.buffer, char)]
             [] t.state = "EscapeNext" ->
                  [t EXCEPT !.buffer = Append(t.buffer, char),
                            !.state = t.previousState]
             [] t.state = "Param" ->
                  IF char = "(" THEN [t EXCEPT !.state = "ParamRegExp"]
                  ELSE IF char \in ValidParamChars
                    THEN [t EXCEPT !.buffer = Append(t.buffer, char)]
                  ELSE [ConsumeBuffer(t) EXCEPT !.state = "Static",
                          !.i = IF IsModifier(char) THEN t.i ELSE t.i - 1]
             [] t.state = "ParamRegExp" ->
                  IF char = ")"
                    THEN IF Len(t.customRe) > 0 /\ t.customRe[Len(t.customRe)] = "\\"
                           THEN [t EXCEPT !.customRe =
                                   Append(SubSeq(t.customRe, 1, Len(t.customRe) - 1), char)]
                           ELSE [t EXCEPT !.state = "ParamRegExpEnd"]
                    ELSE [t EXCEPT !.customRe = Append(t.customRe, char)]
             [] OTHER ->
                  [ConsumeBuffer(t) EXCEPT !.state = "Static",
                     !.i = IF IsModifier(char) THEN t.i ELSE t.i - 1,
                     !.customRe = <<>>]

RECURSIVE TokenizerLoop(_, _)
TokenizerLoop(t, path) ==
  IF t.crashed # "" \/ t.i >= Len(path) THEN t
  ELSE TokenizerLoop(TokenizerStep(t, path), path)

Tokens(tokens) == [status |-> "ok", tokens |-> tokens, error |-> ""]

TokenizerError(message) == [status |-> "error", tokens |-> <<>>, error |-> message]

\* tokenizePath(path)
TokenizePath(path) ==
  IF Len(path) = 0 THEN Tokens(<< <<>> >>)
  ELSE IF path = <<"/">> THEN Tokens(<< <<ROOT_TOKEN>> >>)
  ELSE IF path[1] # "/" THEN TokenizerError("Route paths should start with a /")
  ELSE LET t == TokenizerLoop(TokenizerStart, path)
           c == IF t.crashed # "" THEN t
                ELSE IF t.state = "ParamRegExp"
                  THEN [t EXCEPT !.crashed = "Unfinished custom RegExp for param"]
                ELSE ConsumeBuffer(t)
       IN  IF c.crashed # "" THEN TokenizerError(c.crashed)
           ELSE Tokens(FinalizeSegment(c).tokens)

(***************************************************************************)
(* tokenizePath applied to every path of at most MaxPathLen characters     *)
(***************************************************************************)
PathChars == {"/", ":", "a", "-", "+", "*", "?", "(", ")", "\\"}

TokInit ==
  /\ HistInit /\ RouterInit
  /\ \E n \in 0..MaxPathLen : \E path \in [1..n -> PathChars] :
       input = [fn |-> "tokenizePath", path |-> path]
  /\ output = NotRun

Tokenize ==
  /\ input.fn = "tokenizePath"
  /\ output = NotRun
  /\ output' = TokenizePath(input.path)
  /\ UNCHANGED <<histVars, obsVars, routerVars, input, tableVars>>

TokNext == Tokenize

SpecTok == TokInit /\ [][TokNext]_vars

(***************************************************************************)
(* matcher/pathParserRanker.ts : the score of tokensToParser and           *)
(* comparePathParserScore.  enum PathScore, in hundredths so that the      *)
(* bonuses 0.7 and 0.25 are integers.                                      *)
(***************************************************************************)
PathScoreRoot == 9000
PathScoreSegment == 4000
PathScoreStatic == 4000
PathScoreDynamic == 2000
PathScoreBonusCustomRegExp == 1000
PathScoreBonusWildcard == -5000
PathScoreBonusRepeatable == -2000
PathScoreBonusOptional == -800
PathScoreBonusStrict == 70
PathScoreBonusCaseSensitive == 25

\* BASE_PATH_PARSER_OPTIONS with the extra options assigned over it
PathParserOptions == [strict : BOOLEAN, sensitive : BOOLEAN, end : BOOLEAN]

BASE_PATH_PARSER_OPTIONS == [strict |-> FALSE, sensitive |-> FALSE, end |-> TRUE]

\* subSegmentScore of one token
SubSegmentScore(token, options) ==
  PathScoreSegment + (IF options.sensitive THEN PathScoreBonusCaseSensitive ELSE 0)
    + (IF token.type = "static" THEN PathScoreStatic
       ELSE PathScoreDynamic
            + (IF token.regexp # <<>> THEN PathScoreBonusCustomRegExp ELSE 0)
            + (IF token.optional THEN PathScoreBonusOptional ELSE 0)
            + (IF token.repeatable THEN PathScoreBonusRepeatable ELSE 0)
            + (IF token.regexp = <<".", "*">> THEN PathScoreBonusWildcard ELSE 0))

\* segmentScores of one segment
SegmentScores(segment, options) ==
  IF Len(segment) = 0 THEN <<PathScoreRoot>>
  ELSE [k \in 1..Len(segment) |-> SubSegmentScore(segment[k], options)]

\* score of tokensToParser(segments, options), with the strict bonus on the
\* last entry
ParserScore(segments, options) ==
  LET score == [s \in 1..Len(segments) |-> SegmentScores(segments[s], options)]
      i == Len(score)
  IN  IF options.strict /\ options.end
        THEN [score EXCEPT ![i][Len(score[i])] = @ + PathScoreBonusStrict]
        ELSE score

RECURSIVE FirstDiff(_, _, _)
\* the while loop of compareScoreArray: b[i] - a[i] at the first index where
\* they differ, 0 when the common prefix is equal
FirstDiff(a, b, i) ==
  IF i > Len(a) \/ i > Len(b) THEN 0
  ELSE IF b[i] - a[i] # 0 THEN b[i] - a[i]
  ELSE FirstDiff(a, b, i + 1)

CompareScoreArray(a, b) ==
  LET diff == FirstDiff(a, b, 1)
  IN  IF diff # 0 THEN diff
      ELSE IF Len(a) < Len(b)
        THEN IF Len(a) = 1 /\ a[1] = PathScoreStatic + PathScoreSegment THEN -1 ELSE 1
      ELSE IF Len(a) > Len(b)
        THEN IF Len(b) = 1 /\ b[1] = PathScoreStatic + PathScoreSegment THEN 1 ELSE -1
      ELSE 0

IsLastScoreNegative(score) ==
  Len(score) > 0 /\ score[Len(score)][Len(score[Len(score)])] < 0

RECURSIVE FirstComp(_, _, _)
\* the while loop of comparePathParserScore
FirstComp(aScore, bScore, i) ==
  IF i > Len(aScore) \/ i > Len(bScore) THEN 0
  ELSE LET comp == CompareScoreArray(aScore[i], bScore[i])
       IN  IF comp # 0 THEN comp ELSE FirstComp(aScore, bScore, i + 1)

Abs(n) == IF n < 0 THEN -n ELSE n

ComparePathParserScore(aScore, bScore) ==
  LET comp == FirstComp(aScore, bScore, 1)
  IN  IF comp # 0 THEN comp
      ELSE IF Abs(Len(bScore) - Len(aScore)) = 1 /\ IsLastScoreNegative(aScore) THEN 1
      ELSE IF Abs(Len(bScore) - Len(aScore)) = 1 /\ IsLastScoreNegative(bScore) THEN -1
      ELSE Len(bScore) - Len(aScore)

(***************************************************************************)
(* matcher/pathParserRanker.ts : the regular expression of tokensToParser, *)
(* parse and stringify.  The expression is kept as the list of its         *)
(* per-token fragments and matched as a backtracking matcher does: the     *)
(* alternatives of a fragment are tried in the order of their priority     *)
(* and the first one the rest of the expression accepts is taken.          *)
(***************************************************************************)
At(path, pos) == IF pos \in 1..Len(path) THEN path[pos] ELSE ""

\* the i flag of new RegExp(pattern, options.sensitive ? '' : 'i')
Fold(char) == IF char = "A" THEN "a" ELSE char

\* the literal text matches the path at pos
LitAt(path, pos, text, sensitive) ==
  \A k \in 1..Len(text) :
    IF sensitive THEN At(path, pos + k - 1) = text[k]
    ELSE Fold(At(path, pos + k - 1)) = Fold(text[k]) /\ At(path, pos + k - 1) # ""

\* the fragments of pattern, one per token, and one per empty segment of a
\* strict parser
RECURSIVE Fragments(_, _, _)
Fragments(segments, s, options) ==
  IF s > Len(segments) THEN <<>>
  ELSE LET segment == segments[s]
           slash == [kind |-> "slash", lead |-> FALSE, text |-> <<>>, re |-> <<>>,
                     repeatable |-> FALSE, optional |-> FALSE, wrap |-> FALSE]
           own == IF Len(segment) = 0
                    THEN IF options.strict THEN <<slash>> ELSE <<>>
                    ELSE [k \in 1..Len(segment) |->
                           [kind |-> segment[k].type, lead |-> k = 1,
                            text |-> IF segment[k].type = "static" THEN segment[k].value ELSE <<>>,
                            re |-> segment[k].regexp,
                            repeatable |-> segment[k].repeatable,
                            optional |-> segment[k].optional,
                            wrap |-> k = 1 /\ segment[k].optional /\ Len(segment) < 2]]
       IN  own \o Fragments(segments, s + 1, options)

\* keys, one per parameter token
RECURSIVE Keys(_, _)
Keys(segments, s) ==
  IF s > Len(segments) THEN <<>>
  ELSE SelectSeq(segments[s], LAMBDA token : token.type = "param") \o Keys(segments, s + 1)

\* pattern.endsWith('/')
PatternEndsWithSlash(els) ==
  /\ Len(els) > 0
  /\ LET last == els[Len(els)]
     IN  \/ last.kind = "slash"
         \/ last.kind = "static" /\ Len(last.text) = 0 /\ last.lead
         \/ last.kind = "static" /\ Len(last.text) > 0 /\ last.text[Len(last.text)] = "/"

\* tokensToParser(segments, extraOptions)
TokensToParser(segments, options) ==
  LET els == Fragments(segments, 1, options)
  IN  [ segments |-> segments, els |-> els, keys |-> Keys(segments, 1),
        score |-> ParserScore(segments, options),
        strict |-> options.strict, end |-> options.end,
        sensitive |-> options.sensitive,
        endsWithSlash |-> PatternEndsWithSlash(els) ]

RECURSIVE NonSlashRun(_, _)
\* how many characters other than "/" stand at pos
NonSlashRun(path, pos) ==
  IF At(path, pos) \in {"", "/"} THEN 0 ELSE 1 + NonSlashRun(path, pos + 1)

\* where one (?:re) started at pos may end, in the order tried: the lazy
\* [^/]+? takes one character first; a custom expression is taken as the
\* literal text it is made of
PartEnds(path, pos, re, sensitive) ==
  IF re = <<>> THEN [i \in 1..NonSlashRun(path, pos) |-> pos + i]
  ELSE IF LitAt(path, pos, re, sensitive) THEN <<pos + Len(re)>>
  ELSE <<>>

RECURSIVE RepeatEnds(_, _, _, _)
RECURSIVE RepeatFrom(_, _, _, _, _, _)
\* where (?:re)(?:/(?:re))* started at pos may end, in the order tried: the
\* greedy star takes a further /re before it stops
RepeatFrom(path, pos, re, sensitive, ends, i) ==
  IF i > Len(ends) THEN <<>>
  ELSE (IF At(path, ends[i]) = "/"
          THEN RepeatEnds(path, ends[i] + 1, re, sensitive) ELSE <<>>)
       \o <<ends[i]>>
       \o RepeatFrom(path, pos, re, sensitive, ends, i + 1)

RepeatEnds(path, pos, re, sensitive) ==
  RepeatFrom(path, pos, re, sensitive, PartEnds(path, pos, re, sensitive), 1)

\* the alternatives of a parameter fragment at pos: the text captured and
\* where the match goes on; the last one of an optional fragment captures
\* nothing
ParamAlternatives(parser, el, path, pos) ==
  LET start == IF el.lead THEN pos + 1 ELSE pos
      leadOK == el.lead => At(path, pos) = "/"
      ends == IF ~leadOK THEN <<>>
              ELSE IF el.repeatable
                THEN RepeatEnds(path, start, el.re, parser.sensitive)
              ELSE PartEnds(path, start, el.re, parser.sensitive)
      taken == [i \in 1..Len(ends) |->
                 [next |-> ends[i], text |-> SubSeq(path, start, ends[i] - 1)]]
      skipped == IF ~el.optional THEN <<>>
                 ELSE IF el.wrap THEN <<[next |-> pos, text |-> <<>>]>>
                 ELSE IF leadOK THEN <<[next |-> start, text |-> <<>>]>>
                 ELSE <<>>
  IN  taken \o skipped

NoMatch == [ok |-> FALSE, caps |-> <<>>]

\* the end of the expression: /? unless strict, then $ or (?:/|$)
MatchTail(parser, path, pos) ==
  LET EndOK(p) ==
        IF parser.end THEN p = Len(path) + 1
        ELSE IF parser.strict /\ ~parser.endsWithSlash
          THEN p = Len(path) + 1 \/ At(path, p) = "/"
        ELSE TRUE
  IN  IF ~parser.strict /\ At(path, pos) = "/" /\ EndOK(pos + 1)
        THEN [ok |-> TRUE, caps |-> <<>>]
      ELSE IF EndOK(pos) THEN [ok |-> TRUE, caps |-> <<>>]
      ELSE NoMatch

RECURSIVE MatchFrom(_, _, _, _)
RECURSIVE TryAlternatives(_, _, _, _, _)
TryAlternatives(parser, k, path, alts, i) ==
  IF i > Len(alts) THEN NoMatch
  ELSE LET rest == MatchFrom(parser, k + 1, path, alts[i].next)
       IN  IF rest.ok THEN [ok |-> TRUE, caps |-> <<alts[i].text>> \o rest.caps]
           ELSE TryAlternatives(parser, k, path, alts, i + 1)

\* path.match(re) from fragment k at pos; caps are match[1..], with '' for a
\* group that took no part
MatchFrom(parser, k, path, pos) ==
  IF k > Len(parser.els) THEN MatchTail(parser, path, pos)
  ELSE LET el == parser.els[k]
       IN  IF el.kind = "slash"
             THEN IF At(path, pos) = "/" THEN MatchFrom(parser, k + 1, path, pos + 1)
                  ELSE NoMatch
           ELSE IF el.kind = "static"
             THEN LET start == IF el.lead THEN pos + 1 ELSE pos
                  IN  IF (el.lead => At(path, pos) = "/")
                         /\ LitAt(path, start, el.text, parser.sensitive)
                        THEN MatchFrom(parser, k + 1, path, start + Len(el.text))
                        ELSE NoMatch
           ELSE TryAlternatives(parser, k, path,
                                ParamAlternatives(parser, el, path, pos), 1)

\* the names a parameter may have
ParamNames == {<<"a">>, <<"b">>}

Absent == [kind |-> "absent", items |-> <<>>]

StringParam(text) == [kind |-> "string", items |-> <<text>>]

ArrayParam(items) == [kind |-> "array", items |-> items]

RECURSIVE Split(_)
\* value.split('/')
Split(text) ==
  IF \A k \in 1..Len(text) : text[k] # "/" THEN <<text>>
  ELSE LET k == CHOOSE j \in 1..Len(text) :
                  text[j] = "/" /\ \A h \in 1..(j - 1) : text[h] # "/"
       IN  <<SubSeq(text, 1, k - 1)>> \o Split(SubSeq(text, k + 1, Len(text)))

RECURSIVE Join_Concat(_)
\* mutant: the items are joined without the separator
Join_Concat(items) ==
  IF Len(items) = 0 THEN <<>> ELSE items[1] \o Join_Concat(Tail(items))

RECURSIVE Join(_)
\* param.join('/')
Join(items) ==
  IF Len(items) = 0 THEN <<>>
  ELSE IF Len(items) = 1 THEN items[1]
  ELSE items[1] \o <<"/">> \o Join(Tail(items))

\* parse(path): null, or params with the keys of the pattern
Parse(parser, path) ==
  LET match == MatchFrom(parser, 1, path, 1)
  IN  IF ~match.ok THEN [matched |-> FALSE, params |-> [n \in ParamNames |-> Absent]]
      ELSE [matched |-> TRUE,
            params |-> [n \in ParamNames |->
              LET idx == {i \in 1..Len(parser.keys) : parser.keys[i].value = n}
              IN  IF idx = {} THEN Absent
                  ELSE LET i == CHOOSE j \in idx : \A h \in idx : h <= j
                           value == match.caps[i]
                       IN  IF value # <<>> /\ parser.keys[i].repeatable
                             THEN ArrayParam(Split(value))
                             ELSE StringParam(value)]]

EndsWithSlash(path) == Len(path) > 0 /\ path[Len(path)] = "/"

\* mutant: an empty required parameter is written as nothing
StringifyToken_NoMissing(st, token, segmentLength, params) ==
  IF st.error # "" THEN st
  ELSE IF token.type = "static" THEN [st EXCEPT !.path = st.path \o token.value]
  ELSE LET param == IF token.value \in DOMAIN params /\ params[token.value].kind # "absent"
                      THEN params[token.value] ELSE StringParam(<<>>)
       IN  IF param.kind = "array" /\ ~token.repeatable THEN [st EXCEPT !.error = "array"]
           ELSE [st EXCEPT !.path = st.path \o
                   (IF param.kind = "array" THEN Join(param.items) ELSE param.items[1])]

\* the body of for (const token of segment) in stringify
StringifyToken(st, token, segmentLength, params) ==
  IF st.error # "" THEN st
  ELSE IF token.type = "static" THEN [st EXCEPT !.path = st.path \o token.value]
  ELSE LET param == IF token.value \in DOMAIN params /\ params[token.value].kind # "absent"
                      THEN params[token.value] ELSE StringParam(<<>>)
           text == IF param.kind = "array" THEN Join(param.items) ELSE param.items[1]
       IN  IF param.kind = "array" /\ ~token.repeatable THEN [st EXCEPT !.error = "array"]
           ELSE IF text = <<>>
             THEN IF token.optional
                    THEN IF segmentLength < 2
                           THEN IF EndsWithSlash(st.path)
                                  THEN [st EXCEPT !.path = SubSeq(st.path, 1, Len(st.path) - 1)]
                                  ELSE [st EXCEPT !.avoidDuplicatedSlash = TRUE]
                           ELSE st
                    ELSE [st EXCEPT !.error = "missing"]
           ELSE [st EXCEPT !.path = st.path \o text]

RECURSIVE StringifyTokens(_, _, _, _)
StringifyTokens(st, segment, k, params) ==
  IF k > Len(segment) THEN st
  ELSE StringifyTokens(StringifyToken(st, segment[k], Len(segment), params),
                       segment, k + 1, params)

RECURSIVE StringifySegments(_, _, _, _)
\* the body of for (const segment of segments) in stringify
StringifySegments(st, segments, s, params) ==
  IF s > Len(segments) \/ st.error # "" THEN st
  ELSE LET slashed == IF ~st.avoidDuplicatedSlash \/ ~EndsWithSlash(st.path)
                        THEN st.path \o <<"/">> ELSE st.path
           begun == [st EXCEPT !.path = slashed, !.avoidDuplicatedSlash = FALSE]
       IN  StringifySegments(StringifyTokens(begun, segments[s], 1, params),
                             segments, s + 1, params)

\* stringify(params): the path, or the error thrown
Stringify(parser, params) ==
  LET st == StringifySegments([path |-> <<>>, avoidDuplicatedSlash |-> FALSE, error |-> ""],
                              parser.segments, 1, params)
  IN  IF st.error # "" THEN [status |-> "error", path |-> <<>>, error |-> st.error]
      ELSE [status |-> "ok", path |-> IF st.path = <<>> THEN <<"/">> ELSE st.path,
            error |-> ""]

(***************************************************************************)
(* comparePathParserScore applied to the parsers of two patterns           *)
(***************************************************************************)
\* the patterns given to tokenizePath and tokensToParser
Patterns ==
  { <<"/">>,
    <<"/", "a">>,
    <<"/", "A">>,
    <<"/", "a", "/">>,
    <<"/", "/", "a">>,
    <<"/", ":", "a">>,
    <<"/", ":", "a", "?">>,
    <<"/", ":", "a", "+">>,
    <<"/", ":", "a", "*">>,
    <<"/", ":", "a", "(", "a", ")">>,
    <<"/", ":", "a", "-", ":", "b">>,
    <<"/", ":", "a", "-", ":", "a">>,
    <<"/", ":", "a", ":", "b">>,
    <<"/", ":", "a", "/", ":", "b">>,
    <<"/", ":", "a", "?", "/", "a">>,
    <<"/", ":", "a", "?", "-", "a">>,
    <<"/", "a", "-", ":", "a", "?">>,
    <<"/", ":", "a", "+", "/", ":", "b", "+">>,
    <<"/", ":", "a", "*", "/", "a">>,
    <<"/", "a", "/", "a">>,
    <<"/", "a", "/", "-">>,
    <<"/", "a", "/", ":", "a">>,
    <<"/", "a", "/", ":", "a", "?">>,
    <<"/", "a", "/", ":", "a", "+">>,
    <<"/", "a", "/", ":", "a", "*">> }

RankInit ==
  /\ HistInit /\ RouterInit
  /\ input \in {[fn |-> "comparePathParserScore", a |-> a, b |-> b,
                  aOptions |-> ao, bOptions |-> bo] :
                   a \in Patterns, b \in Patterns,
                   ao \in PathParserOptions, bo \in PathParserOptions}
  /\ output = NotRun

\* comparePathParserScore(tokensToParser(tokenizePath(a), aOptions),
\*                        tokensToParser(tokenizePath(b), bOptions))
Compare ==
  /\ input.fn = "comparePathParserScore"
  /\ output = NotRun
  /\ LET aScore == ParserScore(TokenizePath(input.a).tokens, input.aOptions)
         bScore == ParserScore(TokenizePath(input.b).tokens, input.bOptions)
     IN  output' = [status |-> "ok", aScore |-> aScore, bScore |-> bScore,
                    comp |-> ComparePathParserScore(aScore, bScore)]
  /\ UNCHANGED <<histVars, obsVars, routerVars, input, tableVars>>

RankNext == Compare

SpecRank == RankInit /\ [][RankNext]_vars

(***************************************************************************)
(* parse then stringify applied to every path of at most MaxParsedLen      *)
(* characters, and stringify applied to params                             *)
(***************************************************************************)
ParsedChars == {"/", "a", "A", "-"}

ParseInit ==
  /\ HistInit /\ RouterInit
  /\ \E pattern \in Patterns, options \in PathParserOptions :
       \E n \in 0..MaxParsedLen : \E path \in [1..n -> ParsedChars] :
         input = [fn |-> "parse", pattern |-> pattern, options |-> options, path |-> path]
  /\ output = NotRun

\* parser.stringify(parser.parse(path)) when the path matches
ParseStringify ==
  /\ input.fn = "parse"
  /\ output = NotRun
  /\ LET parser == TokensToParser(TokenizePath(input.pattern).tokens, input.options)
         parsed == Parse(parser, input.path)
         result == Stringify(parser, parsed.params)
     IN  output' = IF ~parsed.matched
                     THEN [status |-> "null", keys |-> parser.keys,
                           params |-> parsed.params, path |-> <<>>, error |-> ""]
                     ELSE [status |-> result.status, keys |-> parser.keys,
                           params |-> parsed.params, path |-> result.path,
                           error |-> result.error]
  /\ UNCHANGED <<histVars, obsVars, routerVars, input, tableVars>>

ParseNext == ParseStringify

SpecParse == ParseInit /\ [][ParseNext]_vars

ParamValues ==
  { Absent, StringParam(<<>>), StringParam(<<"a">>), ArrayParam(<<>>),
    ArrayParam(<< <<>> >>), ArrayParam(<< <<"a">> >>), ArrayParam(<< <<"a">>, <<"A">> >>) }

StringifyInit ==
  /\ HistInit /\ RouterInit
  /\ input \in {[fn |-> "stringify", pattern |-> pattern, params |-> params] :
                   pattern \in Patterns, params \in [ParamNames -> ParamValues]}
  /\ output = NotRun

StringifyParams ==
  /\ input.fn = "stringify"
  /\ output = NotRun
  /\ output' = Stringify(TokensToParser(TokenizePath(input.pattern).tokens,
                                        BASE_PATH_PARSER_OPTIONS), input.params)
  /\ UNCHANGED <<histVars, obsVars, routerVars, input, tableVars>>

StringifyNext == StringifyParams

SpecStringify == StringifyInit /\ [][StringifyNext]_vars

(***************************************************************************)
(* The matcher table of createRouterMatcher (matcher/index.ts) and the     *)
(* router's addRoute, removeRoute and hasRoute over it.  A matcher is      *)
(* known by the id it got when it was created.                             *)
(***************************************************************************)
RouteNames == {"x", "y"}

\* the route records given to addRoute: a name ("" for none), a path
\* relative to the parent and the alias paths
RouteRecords ==
  [ name : RouteNames \cup {""},
    path : {<<"a">>, <<":", "a">>},
    alias : {<<>>, << <<"b">> >>} ]

\* the paths given to resolve
ResolvePaths ==
  { <<"/", "a">>, <<"/", "b">>, <<"/", "-">>, <<"/", "a", "/", "a">>,
    <<"/", "a", "/", "b">>, <<"/", "b", "/", "a">>, <<"/", "b", "/", "b">>,
    <<"/", "-", "/", "-">> }

\* the matcher with this id
MatcherOf(ms, id) == ms[CHOOSE i \in 1..Len(ms) : ms[i].id = id]

\* matcher.getRecordMatcher(name): the id in the name index, 0 for none
GetRecordMatcher(map, name) == IF name \in DOMAIN map THEN map[name] ELSE 0

\* the record's pattern, prefixed by the parent's full pattern when nested
FullPath(ms, parent, path) ==
  IF parent = 0 THEN <<"/">> \o path ELSE MatcherOf(ms, parent).path \o <<"/">> \o path

\* createRouteRecordMatcher(record, parent, options); of the parser the
\* matcher keeps its score, the rest is rebuilt from the path when needed
CreateRouteRecordMatcher(id, name, path, aliasOf, parent) ==
  [ id |-> id, name |-> name, path |-> path, aliasOf |-> aliasOf, parent |-> parent,
    score |-> ParserScore(TokenizePath(path).tokens, BASE_PATH_PARSER_OPTIONS),
    children |-> <<>>, alias |-> <<>> ]

\* the position that preserves the descending-rank order
FindInsertionIndex(ms, m) ==
  LET before == {i \in 1..Len(ms) :
                   ComparePathParserScore(m.score, ms[i].score) < 0}
  IN  IF before = {} THEN Len(ms) + 1
      ELSE CHOOSE i \in before : \A j \in before : i <= j

\* one matcher enters the table: the list in rank order, the children of its
\* parent, the alias list of its original and, unless it is an alias, the
\* name index
InsertMatcher(t, m) ==
  LET i == FindInsertionIndex(t.matchers, m)
      linked == [k \in 1..Len(t.matchers) |->
                  LET old == t.matchers[k]
                  IN  [old EXCEPT
                        !.children = IF old.id = m.parent /\ (old.aliasOf = 0) = (m.aliasOf = 0)
                                       THEN Append(@, m.id) ELSE @,
                        !.alias = IF old.id = m.aliasOf THEN Append(@, m.id) ELSE @]]
  IN  [ matchers |-> SubSeq(linked, 1, i - 1) \o <<m>> \o SubSeq(linked, i, Len(linked)),
        matcherMap |-> IF m.name # "" /\ m.aliasOf = 0
                         THEN [t.matcherMap EXCEPT ![m.name] = m.id]
                         ELSE t.matcherMap,
        created |-> t.created + 1 ]

RECURSIVE RemovalSet(_, _, _)
\* the matcher, its alias matchers and the children nested under them
RemovalSet(ms, ids, n) ==
  LET more == ids \cup UNION {{MatcherOf(ms, id).alias[k] : k \in 1..Len(MatcherOf(ms, id).alias)}
                               \cup {MatcherOf(ms, id).children[k] :
                                       k \in 1..Len(MatcherOf(ms, id).children)} : id \in ids}
  IN  IF n = 0 \/ more = ids THEN ids ELSE RemovalSet(ms, more, n - 1)

\* mutant: the matcher leaves the table and its alias matchers stay
MatcherRemoveRoute_KeepAlias(t, id) ==
  [ matchers |-> SelectSeq(t.matchers, LAMBDA m : m.id # id),
    matcherMap |-> [name \in DOMAIN t.matcherMap |->
                     IF t.matcherMap[name] = id THEN 0 ELSE t.matcherMap[name]],
    created |-> t.created ]

\* matcher.removeRoute(matcher): the matcher, its aliases and their children
\* leave the list, the children lists and the name index
MatcherRemoveRoute(t, id) ==
  LET gone == RemovalSet(t.matchers, {id}, Len(t.matchers))
      kept == SelectSeq(t.matchers, LAMBDA m : m.id \notin gone)
  IN  [ matchers |-> [k \in 1..Len(kept) |->
                       [kept[k] EXCEPT
                         !.children = SelectSeq(@, LAMBDA c : c \notin gone),
                         !.alias = SelectSeq(@, LAMBDA c : c \notin gone)]],
        matcherMap |-> [name \in DOMAIN t.matcherMap |->
                         IF t.matcherMap[name] \in gone THEN 0 ELSE t.matcherMap[name]],
        created |-> t.created ]

RECURSIVE AddAliases(_, _, _, _, _)
\* the declared aliases, each a matcher of its own with aliasOf set
AddAliases(t, record, parent, original, k) ==
  IF k > Len(record.alias) THEN t
  ELSE AddAliases(
         InsertMatcher(t, CreateRouteRecordMatcher(t.created + 1, record.name,
                              FullPath(t.matchers, parent, record.alias[k]), original, parent)),
         record, parent, original, k + 1)

\* the record is the one the name is registered for
SameRecord(ms, id, record, parent) ==
  LET old == MatcherOf(ms, id)
  IN  /\ old.parent = parent
      /\ old.path = FullPath(ms, parent, record.path)
      /\ Len(old.alias) = Len(record.alias)
      /\ \A k \in 1..Len(record.alias) :
           MatcherOf(ms, old.alias[k]).path = FullPath(ms, parent, record.alias[k])

\* matcher.addRoute(record, parent): the table after it, and whether it
\* failed with a duplicate name
MatcherAddRoute(t, record, parent) ==
  LET known == GetRecordMatcher(t.matcherMap, record.name)
      duplicate == known # 0 /\ ~SameRecord(t.matchers, known, record, parent)
      cleared == IF known # 0 THEN MatcherRemoveRoute(t, known) ELSE t
      id == cleared.created + 1
      main == InsertMatcher(cleared, CreateRouteRecordMatcher(id, record.name,
                              FullPath(cleared.matchers, parent, record.path), 0, parent))
  IN  IF duplicate THEN [table |-> t, error |-> "DuplicateName"]
      ELSE [table |-> AddAliases(main, record, parent, id, 1), error |-> ""]

\* matcher.resolve by path: the id of the first matcher of the list whose
\* expression matches, 0 for none
ResolveByPath(ms, path) ==
  LET hits == {i \in 1..Len(ms) :
                 Parse(TokensToParser(TokenizePath(ms[i].path).tokens,
                                      BASE_PATH_PARSER_OPTIONS), path).matched}
  IN  IF hits = {} THEN 0
      ELSE ms[CHOOSE i \in hits : \A j \in hits : i <= j].id

\* router.addRoute(parentName, record): the parent is looked up by name and
\* the record goes to the root when there is none
AddRoute(t, parentName, record) ==
  MatcherAddRoute(t, record, GetRecordMatcher(t.matcherMap, parentName))

\* mutant: removeRoute only forgets the name
RemoveRoute_NameOnly(t, name) ==
  [t EXCEPT !.matcherMap = [n \in DOMAIN t.matcherMap |-> IF n = name THEN 0 ELSE @[n]]]

\* router.removeRoute(name)
RemoveRoute(t, name) ==
  LET recordMatcher == GetRecordMatcher(t.matcherMap, name)
  IN  IF recordMatcher # 0 THEN MatcherRemoveRoute(t, recordMatcher) ELSE t

\* router.hasRoute(name)
HasRoute(map, name) == GetRecordMatcher(map, name) # 0

Table == [matchers |-> matchers, matcherMap |-> matcherMap, created |-> created]

Ids(ms) == {ms[i].id : i \in 1..Len(ms)}

\* what a call took out of the table: the matchers and, of them, the aliases
Removed(before, after) ==
  [ matchers |-> Ids(before) \ Ids(after),
    aliases |-> {id \in Ids(before) \ Ids(after) : MatcherOf(before, id).aliasOf # 0} ]

TableAddRoute(parentName, record) ==
  /\ created + 1 + Len(record.alias) <= MaxCreated
  /\ LET result == AddRoute(Table, parentName, record)
     IN  /\ matchers' = result.table.matchers
         /\ matcherMap' = result.table.matcherMap
         /\ created' = result.table.created
         /\ input' = [fn |-> "addRoute", name |-> record.name, parent |-> parentName]
         /\ output' = [status |-> IF result.error = "" THEN "ok" ELSE "error",
                        removed |-> Removed(matchers, result.table.matchers)]
  /\ UNCHANGED <<histVars, obsVars, routerVars>>

TableRemoveRoute(name) ==
  /\ LET result == RemoveRoute(Table, name)
     IN  /\ matchers' = result.matchers
         /\ matcherMap' = result.matcherMap
         /\ created' = result.created
         /\ input' = [fn |-> "removeRoute", name |-> name, parent |-> ""]
         /\ output' = [status |-> "ok", removed |-> Removed(matchers, result.matchers)]
  /\ UNCHANGED <<histVars, obsVars, routerVars>>

TableNext ==
  \/ \E parentName \in RouteNames \cup {""}, record \in RouteRecords :
       TableAddRoute(parentName, record)
  \/ \E name \in RouteNames : TableRemoveRoute(name)

SpecTable == Init /\ [][TableNext]_vars

(***************************************************************************)
(* Claims about the navigations                                            *)
(***************************************************************************)
\* navigation n settles the promise of push in this step
Settles(n) == navs[n].pc # "done" /\ navs'[n].pc = "done"

\* the after hooks of `list` were each called once, in order, with
\* (to, from, failure) of navigation `nav`
AfterLogIs(nav, list, failure) ==
  /\ Len(nav.afterLog) = Len(list)
  /\ \A i \in 1..Len(list) :
       /\ nav.afterLog[i].guard = list[i]
       /\ nav.afterLog[i].to = nav.to.obj
       /\ nav.afterLog[i].from = nav.from.obj
       /\ nav.afterLog[i].failure = failure

Committed(n) == navs[n].commits > 0

\* C1 (as claimed): a navigation superseded by a later push while it waited on
\* a guard never commits its target, nor a target it is redirected to
C1_StaleNeverCommits ==
  \A n \in Navs : navs[n].stale => ~Committed(n)

\* C2: the step that follows a guard's false leaves the failure aborted
C2_CatchStep(n) ==
  navs[n].pc = "caught" /\ navs[n].failure = "aborted" /\ navs'[n] # navs[n] =>
    /\ navs'[n].pc = "then" /\ navs'[n].failure = "aborted"
    /\ currentRoute' = currentRoute /\ queue' = queue /\ position' = position

\* C2: the step that settles an aborted navigation
C2_ThenStep(n) ==
  navs[n].failure = "aborted" /\ Settles(n) =>
    /\ navs'[n].result = Resolved("aborted")
    /\ AfterLogIs(navs'[n], afterGuards, "aborted")
    /\ currentRoute' = currentRoute /\ queue' = queue /\ position' = position

\* C2: what holds of a navigation one of whose guards returned false
C2_Ended(n) ==
  navs[n].falsePhase # 0 =>
    /\ navs[n].pc \in {"caught", "then", "done"}
    /\ navs[n].failure = "aborted"
    /\ navs[n].histOps = <<>> /\ ~Committed(n) /\ navs[n].errLog = <<>>
    /\ navs[n].pc = "done" => navs[n].result = Resolved("aborted")

\* C2: when a guard of any phase returns false the navigation is aborted:
\* it never assigns currentRoute, never calls push or replace of the history,
\* calls every registered after hook once with the NavigationAborted failure,
\* and resolves the promise of push with that failure.
C2_FalseAborts ==
  /\ [][\A n \in Navs : C2_CatchStep(n) /\ C2_ThenStep(n)]_vars
  /\ [](\A n \in Navs : C2_Ended(n))

\* a leave guard returned false: the second navigation ended aborted, with
\* the first navigation's target still current and both after hooks called
C2_Witness ==
  /\ navs[2].pc = "done" /\ navs[2].falsePhase = 1
  /\ Len(navs[2].afterLog) = MaxAfter /\ MaxAfter > 0
  /\ currentRoute.obj = navs[2].from.obj /\ currentRoute.obj # StartObj

C4_AlternatingChainRejects ==
  \A n \in Navs :
    navs[n].hops > MaxRedirects + 1 /\ navs[n].sameHops = 0 =>
      /\ navs[n].pc = "done"
      /\ navs[n].result = Rejected("infiniteRedirect")
      /\ ~Committed(n)

\* C5 (as claimed): the router follows at most 30 redirects to the target
\* the navigation is already heading to
C5_AtMostThirtySameRedirects ==
  \A n \in Navs : navs[n].sameHops <= MaxRedirects

\* the claim's route equality: same deepest matched record, same params,
\* same stringified query, same hash
RouteEqual(a, b) ==
  /\ Len(a.matched) > 0 /\ Len(b.matched) > 0
  /\ a.matched[Len(a.matched)] = b.matched[Len(b.matched)]
  /\ a.params = b.params
  /\ StringifyQuery(a.query) = StringifyQuery(b.query)
  /\ a.hash = b.hash

\* navigation n is started by push in this step
Starts(n) == navs[n].pc = "idle" /\ navs'[n].pc # "idle"

\* C6: the push of a target that is route-equal to currentRoute
C6_PushStep(n) ==
  Starts(n) /\ RouteEqual(navs'[n].to, currentRoute) =>
    IF navs'[n].force
      THEN navs'[n].pc \in {"guard", "check"} /\ navs'[n].phase = 1
      ELSE /\ navs'[n].pc = "then" /\ navs'[n].failure = "duplicated"
           /\ navs'[n].phase = 0 /\ navs'[n].gq = <<>>
           /\ currentRoute' = currentRoute /\ queue' = queue /\ position' = position

\* C6: the step that settles a duplicated navigation
C6_ThenStep(n) ==
  navs[n].failure = "duplicated" /\ Settles(n) =>
    /\ navs'[n].result = Resolved("duplicated")
    /\ AfterLogIs(navs'[n], afterGuards, "duplicated")
    /\ navs'[n].histOps = <<>> /\ navs'[n].commits = 0
    /\ currentRoute' = currentRoute /\ queue' = queue /\ position' = position

\* C6: the forced push of the current location, once its guards let it
\* through and no newer navigation has started, commits
C6_ForcedStep(n) ==
  /\ navs[n].force /\ RouteEqual(navs[n].to, currentRoute)
  /\ navs[n].pc = "then" /\ navs[n].failure = "none"
  /\ pendingLocation = navs[n].to.obj /\ Settles(n)
  => /\ navs'[n].commits = 1 /\ Len(navs'[n].histOps) = 1
     /\ currentRoute' = navs[n].to
     /\ navs'[n].result = Resolved("none")

\* C6: a push without force whose resolved target is route-equal to
\* currentRoute runs no guard, calls neither push nor replace of the history,
\* leaves currentRoute unchanged and resolves with a NavigationDuplicated
\* failure that the after hooks receive; with force the same push enters the
\* guard pipeline and commits.
C6_DuplicateShortCircuit ==
  [][\A n \in Navs : C6_PushStep(n) /\ C6_ThenStep(n) /\ C6_ForcedStep(n)]_vars

\* the second push repeated the committed target, hash included, and ended
\* duplicated, with the after hooks called and the history left alone
C6_Witness ==
  /\ navs[1].pc = "done" /\ navs[1].commits = 1 /\ navs[1].to.hash = "#h"
  /\ navs[2].pc = "done" /\ navs[2].result = Resolved("duplicated")
  /\ ~navs[2].force /\ RouteEqual(navs[2].to, currentRoute)
  /\ Len(navs[2].afterLog) = MaxAfter /\ MaxAfter > 0
  /\ navs[2].histOps = <<>>

RecoverableFailures == {"cancelled", "aborted", "duplicated"}

\* C7 (amended): a navigation whose outcome is Cancelled, Aborted or
\* Duplicated resolves the promise of push with the failure of that kind; the
\* promise is not rejected and no error handler is called.  A GuardRedirect
\* is never the value the promise settles with: the redirect is followed and
\* the promise settles with the outcome of the navigation to its target.
C7_FailuresResolve ==
  /\ [][\A n \in Navs :
          /\ Settles(n) /\ navs[n].failure \in RecoverableFailures =>
               /\ navs'[n].result = Resolved(navs[n].failure)
               /\ navs'[n].errLog = <<>>
          /\ Settles(n) /\ navs'[n].result.value \in RecoverableFailures =>
               /\ navs'[n].result.kind = "resolved"
               /\ navs'[n].errLog = <<>>
          /\ navs[n].pc = "then" /\ navs[n].failure = "redirect" /\ navs'[n] # navs[n] =>
               /\ navs'[n].result # Resolved("redirect")
               /\ navs'[n].pc = "done" => navs'[n].result.kind # "resolved"]_vars
  /\ [](\A n \in Navs : navs[n].result.value # "redirect")

\* C7 (as claimed): a navigation whose outcome is Cancelled, Aborted,
\* Duplicated or GuardRedirect settles the promise of push by resolving it
\* with a failure of that kind, and calls no error handler
C7_FourFailuresResolve ==
  [][\A n \in Navs :
       /\ navs[n].pc = "then" /\ navs[n].failure \in RecoverableFailures \cup {"redirect"}
       /\ navs'[n] # navs[n]
       => /\ navs'[n].pc = "done"
          /\ navs'[n].result = Resolved(navs[n].failure)
          /\ navs'[n].errLog = <<>>]_vars

\* with an error handler registered, the first navigation ended cancelled and
\* the second, after following a guard redirect, ended aborted
C7_Witness ==
  /\ errorListeners # <<>>
  /\ navs[1].pc = "done" /\ navs[1].result = Resolved("cancelled")
  /\ navs[2].pc = "done" /\ navs[2].result = Resolved("aborted")
  /\ navs[2].hops > 0
  /\ navs[1].errLog = <<>> /\ navs[2].errLog = <<>>

\* the error handlers of `list` were each called once, in order, with
\* (error, to, from) of navigation `nav`
ErrLogIs(nav, list, error) ==
  /\ Len(nav.errLog) = Len(list)
  /\ \A i \in 1..Len(list) :
       /\ nav.errLog[i].handler = list[i]
       /\ nav.errLog[i].error = error
       /\ nav.errLog[i].to = nav.to.obj
       /\ nav.errLog[i].from = nav.from.obj

\* C8 (as claimed): a navigation that ends with an error thrown by a guard or
\* with the infinite redirect error calls every registered error handler
\* with (error, to, from), rejects the promise of push with the error, and
\* leaves currentRoute and the history as they were
C8_ErrorsReachHandlers ==
  [][\A n \in Navs :
       Settles(n) /\ navs'[n].result.value \in {"error", "infiniteRedirect"} =>
         /\ navs'[n].result.kind = "rejected"
         /\ ErrLogIs(navs'[n], errorListeners, navs'[n].result.value)
         /\ currentRoute' = currentRoute /\ queue' = queue /\ position' = position]_vars

\* the step in which the outcome of navigation n becomes final
Terminates(n) ==
  \/ navs[n].pc = "caught" /\ navs[n].failure \in {"aborted", "error"}
       /\ navs'[n].pc # "caught"
  \/ Settles(n) /\ navs'[n].result \in {Resolved("none"), Rejected("infiniteRedirect")}

\* C9 (as claimed): when the first navigation terminates (committed, aborted,
\* guard error, infinite redirect) every waiter of isReady() is settled, once:
\* resolved on a commit, rejected with the failure or the error otherwise
C9_WaitersSettled ==
  [][Terminates(1) =>
       \A w \in Waiters :
         waiters[w].state = "pending" =>
           /\ waiters'[w].settled = 1
           /\ IF navs'[1].commits > 0
                THEN waiters'[w].state = "resolved"
                ELSE /\ waiters'[w].state = "rejected"
                     /\ waiters'[w].value \in {"aborted", "error", "infiniteRedirect"}]_vars

(***************************************************************************)
(* C10                                                                     *)
(***************************************************************************)
PushStepOK ==
  lastOp'.op = "push" =>
    /\ queue' = SubSeq(queue, 1, position + 1) \o <<lastOp'.arg>>
    /\ position' = Len(queue') - 1
    /\ MemLocation(queue', position') = lastOp'.arg

GoKeepsQueue == lastOp'.op = "go" => queue' = queue

ScriptOK ==
  /\ script = 3 => Location = <<"/a">>
  /\ script = 5 => Location = <<"/c">>
  /\ script >= 4 => Location # <<"/b">> /\ <<"/b">> \notin Range(queue)

\* C10: in the in-memory history push(x) makes x the current and the last entry
\* of the queue and discards every entry ahead of the old position; go never
\* changes the queue; after push(/a) push(/b) go(-1) the location is /a, and
\* after a further push(/c) no go reaches /b again and go(1) stays on /c.
C10_PushTruncates ==
  /\ [][PushStepOK /\ GoKeepsQueue]_vars
  /\ []ScriptOK

\* a push made from the middle of the queue, in the scripted scenario
C10_Witness ==
  script = 5 /\ lastOp.op = "go" /\ lastOp.arg = 1 /\ Location = <<"/c">>

(***************************************************************************)
(* C11, C12                                                                *)
(***************************************************************************)
\* C11: in the in-memory history, after any sequence of push, replace, go
\* (any delta, in or out of range) and destroy, 0 <= position <=
\* queue.length - 1, so location is an existing entry of the queue.
C11_CursorInQueue ==
  /\ 0 <= position /\ position <= Len(queue) - 1
  /\ position + 1 \in DOMAIN queue
  /\ Location = queue[position + 1]

\* go(2) was called on the last entry of a full queue and go(-2) brought the
\* cursor back to the first entry
C11_Witness ==
  /\ lastOp.op = "go" /\ lastOp.arg = -2 /\ position = 0
  /\ Len(queue) = MaxQueue

\* the calls a go(delta) is to make: one per callback registered when go is
\* called, in order, with (to, from, pop, direction)
ExpectedCalls(g) ==
  [i \in 1..Len(g.registered) |->
     [id |-> g.registered[i], to |-> g.to, from |-> g.from, type |-> "pop",
      direction |-> IF g.delta < 0 THEN "back" ELSE "forward", delta |-> g.delta]]

\* C12 (as claimed): go(delta) invokes every callback registered when it is
\* called exactly once, with to = the entry at the new position, from = the
\* entry at the old position, type pop, direction back when delta < 0 and
\* forward otherwise; go(delta, false) invokes none; a callback whose
\* unsubscribe function has been called is not invoked again.
C12_GoNotifiesEveryListener ==
  lastGo.called =>
    /\ lastGo.calls = IF lastGo.trigger THEN ExpectedCalls(lastGo) ELSE <<>>
    /\ \A i \in 1..Len(lastGo.calls) : lastGo.calls[i].id \notin lastGo.unsubscribed
    /\ \A i \in 1..Len(listeners) : listeners[i].id \notin unsubscribed

(***************************************************************************)
(* C13                                                                     *)
(***************************************************************************)
\* C13 (as claimed): when the navigation started by router.go(delta) ends
\* because a guard returned false or threw, the history is back on the entry
\* it was on before go(delta) was called and currentRoute is unchanged
C13_FailedGoIsReverted ==
  [][\A n \in Navs :
       /\ navs[n].pop /\ Settles(n)
       /\ (navs'[n].falsePhase # 0 \/ navs'[n].result = Rejected("error"))
       => /\ position' = navs[n].origPos
          /\ MemLocation(queue', position') = MemLocation(queue, navs[n].origPos)
          /\ currentRoute' = currentRoute
          /\ currentRoute' = navs[n].from]_vars

(***************************************************************************)
(* Claims about the tokenizer                                              *)
(***************************************************************************)
Tokenized == input.fn = "tokenizePath" /\ output # NotRun

\* path starts with "/", path[i] is a ":" opening a parameter at the head of
\* a segment after plain static text, path[i+1..j-1] its name, path[j] a "-" and the rest plain
NameEndsAtDash(path, i, j) ==
  /\ i \in 2..Len(path) /\ j \in (i + 2)..Len(path)
  /\ path[1] = "/" /\ path[i - 1] = "/" /\ path[i] = ":"
  /\ \A k \in 1..(i - 1) : path[k] \in {"/", "a"}
  /\ \A k \in (i + 1)..(j - 1) : path[k] \in ValidParamChars
  /\ path[j] = "-"
  /\ \A k \in (j + 1)..Len(path) : path[k] \in {"/", "a", "-"}

SlashesBefore(path, i) == Cardinality({k \in 1..(i - 1) : path[k] = "/"})

\* C18 (as stated): tokenizePath fails with a malformed-pattern error whenever
\* a parameter name in the pattern contains a character outside [A-Za-z0-9_].
C18_InvalidNameCharFails ==
  Tokenized =>
    ((\E i, j \in 1..MaxPathLen + 1 : NameEndsAtDash(input.path, i, j))
       => output.status = "error")

\* C18 (amended): a character outside [A-Za-z0-9_] never makes tokenizePath
\* fail; it ends the parameter name.  The parameter token is named by the
\* run of valid characters and the character opens a static token of the
\* same segment, and for a pattern without a backslash no returned
\* parameter token has an invalid character in its name.
C18_InvalidCharEndsName ==
  Tokenized =>
    /\ \A i, j \in 1..MaxPathLen + 1 :
         NameEndsAtDash(input.path, i, j) =>
           /\ output.status = "ok"
           /\ LET segment == output.tokens[SlashesBefore(input.path, i)]
              IN  /\ Len(segment) >= 2
                  /\ segment[1] = ParamToken(SubSeq(input.path, i + 1, j - 1),
                                             <<>>, FALSE, FALSE)
                  /\ segment[2].type = "static"
                  /\ segment[2].value[1] = "-"
    /\ (output.status = "ok" /\ \A c \in 1..Len(input.path) : input.path[c] # "\\") =>
         \A s \in 1..Len(output.tokens) : \A k \in 1..Len(output.tokens[s]) :
           output.tokens[s][k].type = "param" =>
             \A c \in 1..Len(output.tokens[s][k].value) :
               output.tokens[s][k].value[c] \in ValidParamChars

C18_Witness ==
  /\ Tokenized /\ output.status = "ok"
  /\ input.path = <<"/", ":", "a", "-", "a">>

\* C19: tokenizePath never returns a segment in which a repeatable (+ or *)
\* or optional (?) parameter stands together with another token, whether
\* that token comes before or after the parameter.
C19_ModifiedParamIsAlone ==
  (Tokenized /\ output.status = "ok") =>
    \A s \in 1..Len(output.tokens) : \A k \in 1..Len(output.tokens[s]) :
      LET token == output.tokens[s][k]
      IN  (token.type = "param" /\ (token.repeatable \/ token.optional))
            => Len(output.tokens[s]) = 1
(***************************************************************************)
(* Claims about the ranking of parsers                                     *)
(***************************************************************************)
Compared == input.fn = "comparePathParserScore" /\ output # NotRun

\* b is the pattern a with its last token, a static one, replaced by a
\* plain parameter: '/a/a' and '/a/:a', '/a' and '/:a'
StaticVersusParam(a, b) ==
  LET ta == TokenizePath(a).tokens
      tb == TokenizePath(b).tokens
  IN  /\ Len(ta) = Len(tb)
      /\ \A s \in 1..(Len(ta) - 1) : ta[s] = tb[s]
      /\ Len(ta[Len(ta)]) = 1 /\ Len(tb[Len(tb)]) = 1
      /\ ta[Len(ta)][1].type = "static" /\ ta[Len(ta)][1].value # <<>>
      /\ tb[Len(tb)][1] = ParamToken(tb[Len(tb)][1].value, <<>>, FALSE, FALSE)

\* C15: comparePathParserScore sorts a pattern ending in a static segment
\* before the same pattern ending in a parameter segment ('/users/new'
\* before '/users/:id'), whatever the strict and sensitive options of the
\* two parsers and in both argument orders.
C15_StaticBeforeParam ==
  Compared =>
    /\ StaticVersusParam(input.a, input.b) => output.comp < 0
    /\ StaticVersusParam(input.b, input.a) => output.comp > 0

\* C16: comparePathParserScore sorts '/:a-:b' before '/:a' in both argument
\* orders, the two parsers being built with the same options, whichever
\* they are.
C16_SubSegmentsBeforeParam ==
  (Compared /\ input.aOptions = input.bOptions) =>
    /\ (input.a = <<"/", ":", "a", "-", ":", "b">> /\ input.b = <<"/", ":", "a">>)
         => output.comp < 0
    /\ (input.a = <<"/", ":", "a">> /\ input.b = <<"/", ":", "a", "-", ":", "b">>)
         => output.comp > 0

(***************************************************************************)
(* Claims about parse and stringify                                        *)
(***************************************************************************)
\* the path was matched, parsed and its params stringified
Parsed == input.fn = "parse" /\ output.status \notin {"none", "null"}

\* an optional parameter of the pattern took no part in the match
OptionalOmitted ==
  \E i \in 1..Len(output.keys) :
    output.keys[i].optional /\ output.params[output.keys[i].value].items = << <<>> >>

\* stringify returns, and returns p unless an optional parameter is omitted
RoundTrip ==
  /\ output.status = "ok"
  /\ ~OptionalOmitted => output.path = input.path

DistinctKeys ==
  \A i, j \in 1..Len(output.keys) :
    output.keys[i].value = output.keys[j].value => i = j

Stringified == input.fn = "stringify" /\ output # NotRun

RECURSIVE Flatten(_)
Flatten(segments) ==
  IF Len(segments) = 0 THEN <<>> ELSE Head(segments) \o Flatten(Tail(segments))

\* the parameter tokens of the pattern given to stringify
ParamTokens ==
  SelectSeq(Flatten(TokenizePath(input.pattern).tokens), LAMBDA token : token.type = "param")

\* a required parameter is absent from params or has an empty value
RequiredMissing ==
  \E i \in 1..Len(ParamTokens) :
    /\ ~ParamTokens[i].optional
    /\ Join(input.params[ParamTokens[i].value].items) = <<>>

\* an array is supplied for a parameter that is not repeatable
ArrayForNonRepeatable ==
  \E i \in 1..Len(ParamTokens) :
    /\ ~ParamTokens[i].repeatable
    /\ input.params[ParamTokens[i].value].kind = "array"

RegisteredUnder(ms, map, name) ==
  IF GetRecordMatcher(map, name) = 0 THEN {}
  ELSE {GetRecordMatcher(map, name)}
       \cup {MatcherOf(ms, GetRecordMatcher(map, name)).alias[k] :
               k \in 1..Len(MatcherOf(ms, GetRecordMatcher(map, name)).alias)}

\* C20: after removeRoute(name) the matcher registered under name and every
\* alias matcher registered alongside it are gone from the table:
\* hasRoute(name) is false and no path resolves to the removed record or to
\* one of its aliases, whatever addRoute and removeRoute calls came before.
C20_RemovedRouteIsGone ==
  [][ input'.fn = "removeRoute" =>
        LET gone == RegisteredUnder(matchers, matcherMap, input'.name)
        IN  /\ ~HasRoute(matcherMap', input'.name)
            /\ Ids(matchers') \cap gone = {}
            /\ \A i \in 1..Len(matchers') : matchers'[i].name # input'.name
            /\ \A path \in ResolvePaths : ResolveByPath(matchers', path) \notin gone
      ]_vars

C20_Witness ==
  /\ input.fn = "removeRoute" /\ input.name = "x"
  /\ Cardinality(output.removed.matchers) >= 3 /\ output.removed.aliases # {}
  /\ ~HasRoute(matcherMap, "x") /\ HasRoute(matcherMap, "y")
  /\ \E path \in ResolvePaths : ResolveByPath(matchers, path) # 0

(***************************************************************************)
(* router.ts : resolve(rawLocation, currentLocation), over the objects it  *)
(* reads and writes                                                        *)
(***************************************************************************)
\* encoding.ts : encodeParam, over the values of the model
EncodeParam(v) == IF v = "a b" THEN "a%20b" ELSE v

\* encoding.ts : decode
Decode(v) == IF v = "a%20b" THEN "a b" ELSE v

\* applyToParams.bind(null, encodeParam): a new params object
EncodeParams(params) == [k \in DOMAIN params |-> EncodeParam(params[k])]

\* applyToParams.bind(null, decode): a new params object
DecodeParams(params) == [k \in DOMAIN params |-> Decode(params[k])]

\* the objects resolve can reach: the location passed in, currentRoute.value
\* and the copy it makes; a reference is the name of one of them
Heap(passed, current) == [passed |-> passed, current |-> current, copy |-> current]

\* mutant: no copy is made of the current location
AssignCopy_Alias(heap, ref) == [heap |-> heap, ref |-> ref]

\* currentLocation = assign({}, currentLocation || currentRoute.value)
AssignCopy(heap, ref) == [heap |-> [heap EXCEPT !.copy = heap[ref]], ref |-> "copy"]

\* a raw location given as a string, as an object with a path, as an object
\* with a name and params, or as an object with params only (relative)
RawLocation(kind, path, name, params) ==
  [kind |-> kind, path |-> path, name |-> name, params |-> params]

\* matcher.resolve({ name, params }, currentLocation) and
\* matcher.resolve({ params }, currentLocation): the record is looked up by
\* name, or is the one of the current location; the params given are merged
\* over the ones of the current location and the path is built from them
MatcherResolveNamed(name, params, currentLocation) ==
  LET matched == currentLocation.matched
      record == IF name # "" THEN name
                ELSE IF Len(matched) > 0 THEN matched[Len(matched)] ELSE NoRec
      inherited == IF name = "" THEN currentLocation.params ELSE NoParams
      merged == [k \in DOMAIN inherited \cup DOMAIN params |->
                   IF k \in DOMAIN params THEN params[k] ELSE inherited[k]]
  IN  CASE record = "U" /\ "id" \in DOMAIN merged ->
             [ matched |-> <<"U">>, params |-> [id |-> merged["id"]],
               path |-> IF merged["id"] = "a%20b" THEN "/u/a%20b"
                        ELSE IF merged["id"] = "2" THEN "/u/2" ELSE "/u/1" ]
        [] record = "A" -> [matched |-> <<"A">>, params |-> NoParams, path |-> "/a"]
        [] record = "X" -> [matched |-> <<"P", "X">>, params |-> NoParams, path |-> "/p/x"]
        [] OTHER -> [matched |-> <<>>, params |-> NoParams, path |-> currentLocation.path]

\* resolve(rawLocation, currentLocation): the location returned and the
\* objects after the call
ResolveLocation(rawLocation, heap0, given) ==
  LET c == AssignCopy(heap0, IF given THEN "passed" ELSE "current")
      currentLocation == c.ref
  IN  IF rawLocation.kind \in {"string", "path"}
        THEN [ heap |-> c.heap,
               resolved |-> Resolve(
                 ParseURL(<<rawLocation.path>>, c.heap[currentLocation].path), <<0, 1>>) ]
        ELSE LET targetParams == rawLocation.params
                 heap1 == [c.heap EXCEPT ![currentLocation].params =
                             EncodeParams(c.heap[currentLocation].params)]
                 matchedRoute == MatcherResolveNamed(rawLocation.name,
                                   EncodeParams(targetParams), heap1[currentLocation])
             IN  [ heap |-> heap1,
                   resolved |->
                     [ obj |-> <<0, 1>>, path |-> matchedRoute.path, query |-> NoQuery,
                       hash |-> "", params |-> DecodeParams(matchedRoute.params),
                       matched |-> matchedRoute.matched,
                       fullPath |-> StringifyURL(Raw(matchedRoute.path, NoQuery, "")),
                       redirectedFrom |-> NoRef ] ]

\* router.resolve(rawLocation, currentLocation) called by the application;
\* `passed` is the object it hands over when it hands one over
RouterResolve(rawLocation, given, passed) ==
  LET r == ResolveLocation(rawLocation, Heap(passed, currentRoute), given)
  IN  /\ input' = [fn |-> "resolve", rawLocation |-> rawLocation, given |-> given,
                   currentLocation |-> passed]
      /\ output' = [status |-> "ok", resolved |-> r.resolved,
                    currentLocation |-> r.heap["passed"]]
      /\ currentRoute' = r.heap["current"]
      /\ UNCHANGED <<histVars, obsVars, pendingLocation, regVars, readyVars, navs,
                     tableVars>>

(***************************************************************************)
(* The router with navigations made one after the other, and calls of      *)
(* router.resolve at any moment                                            *)
(***************************************************************************)
ResolveTargets == {Raw("/p/x", NoQuery, ""), Raw("/u/a%20b", NoQuery, "")}

ResolveInputs ==
  { RawLocation("string", "/a", "", NoParams),
    RawLocation("path", "/u/1", "", NoParams),
    RawLocation("name", "", "U", [id |-> "a b"]),
    RawLocation("name", "", "A", NoParams),
    RawLocation("relative", "", "", NoParams) }

\* the locations the application passes as currentLocation
PassedLocations ==
  { Resolve(Raw("/u/a%20b", NoQuery, ""), <<0, 2>>),
    Resolve(Raw("/p/x", NoQuery, ""), <<0, 3>>) }

ResolveGuardReturns == {Returns("ok"), Returns("false")}

NextResolve ==
  \/ \E n \in PairNavs, raw \in ResolveTargets : Push(n, raw, FALSE, FALSE, 1)
  \/ \E n \in PairNavs, ret \in ResolveGuardReturns : GuardRun(n, ret, MaxHops)
  \/ \E n \in PairNavs : PhaseEnd(n)
  \/ \E n \in PairNavs : Catch(n)
  \/ \E n \in PairNavs : ThenFailure(n)
  \/ \E n \in PairNavs : ThenFinalize(n)
  \/ Install
  \/ \E rawLocation \in ResolveInputs, given \in BOOLEAN, passed \in PassedLocations :
       RouterResolve(rawLocation, given, passed)

SpecResolve == Init /\ [][NextResolve]_vars

(***************************************************************************)
(* Claims about router.resolve                                             *)
(***************************************************************************)
\* C21: router.resolve(target, currentLocation) has no side effect: the call
\* changes neither currentRoute, pendingLocation, the history stack nor the
\* guard registries, it leaves the currentLocation object passed in as it
\* was, and it leaves every navigation, also one waiting on a guard, as it was.
C21_ResolveHasNoSideEffect ==
  [][ (input'.fn = "resolve" /\ <<input, output>>' # <<input, output>>) =>
        /\ currentRoute' = currentRoute
        /\ pendingLocation' = pendingLocation
        /\ UNCHANGED histVars
        /\ UNCHANGED regVars
        /\ navs' = navs
        /\ output'.currentLocation = input'.currentLocation
    ]_vars

C21_Witness ==
  /\ input.fn = "resolve" /\ input.given
  /\ input.rawLocation.kind = "relative"
  /\ input.currentLocation.params = [id |-> "a b"]
  /\ output.resolved.fullPath = <<"/u/a%20b", "">>
  /\ output.resolved.params = [id |-> "a b"]
  /\ currentRoute.params = [id |-> "a b"]
  /\ \E n \in PairNavs : navs[n].pc = "guard" /\ pendingLocation = navs[n].to.obj

(***************************************************************************)
(* history/hash.ts : createWebHashHistory                                  *)
(***************************************************************************)
MaxBaseLen == 4

\* base.includes('#')
Includes(base, char) == \E i \in 1..Len(base) : base[i] = char

\* base.endsWith(suffix)
EndsWith(base, suffix) ==
  /\ Len(base) >= Len(suffix)
  /\ SubSeq(base, Len(base) - Len(suffix) + 1, Len(base)) = suffix

\* mutant: the base is handed over as it was given
CreateWebHashHistory_NoAppend(base, location) ==
  [ status |-> "ok",
    base |-> IF location.host # <<>>
               THEN IF base # <<>> THEN base ELSE location.pathname \o location.search
               ELSE <<>>,
    warned |-> FALSE ]

\* createWebHashHistory(base): the base given to createWebHistory, and
\* whether the development build warned; an absent base is the empty string
CreateWebHashHistory(base, location) ==
  LET base1 == IF location.host # <<>>
                 THEN IF base # <<>> THEN base ELSE location.pathname \o location.search
                 ELSE <<>>
      base2 == IF ~Includes(base1, "#") THEN base1 \o <<"#">> ELSE base1
  IN  [ status |-> "ok",
        base |-> base2,
        warned |-> DEV /\ ~EndsWith(base2, <<"#", "/">>) /\ ~EndsWith(base2, <<"#">>) ]

BaseChars == {"/", "a", "#"}

\* window.location: a page served by a host, and a page opened from a file
Locations ==
  { [host |-> <<"h">>, pathname |-> <<"/", "p">>, search |-> <<"?", "q">>],
    [host |-> <<>>, pathname |-> <<"/", "f">>, search |-> <<>>] }

HashInit ==
  /\ HistInit /\ RouterInit /\ output = NotRun
  /\ \E n \in 0..MaxBaseLen : \E base \in [1..n -> BaseChars] : \E location \in Locations :
       input = [fn |-> "createWebHashHistory", base |-> base, location |-> location]

HashCreate ==
  /\ input.fn = "createWebHashHistory" /\ output = NotRun
  /\ output' = CreateWebHashHistory(input.base, input.location)
  /\ UNCHANGED <<histVars, obsVars, routerVars, input, tableVars>>

HashNext == HashCreate

SpecHash == HashInit /\ [][HashNext]_vars

(***************************************************************************)
(* Claims about createWebHashHistory                                       *)
(***************************************************************************)
Hashed == input.fn = "createWebHashHistory" /\ output # NotRun

\* the base the function starts from: the one supplied, the path of the page
\* when none is supplied, nothing when the page has no host
SuppliedBase ==
  IF input.location.host = <<>> THEN <<>>
  ELSE IF input.base # <<>> THEN input.base
  ELSE input.location.pathname \o input.location.search

InstallMany ==
  /\ beforeGuards = <<>> /\ beforeResolveGuards = <<>>
  /\ beforeGuards' = AddAll(beforeGuards, MaxGuards + 1)
  /\ beforeResolveGuards' = AddAll(beforeResolveGuards, MaxGuards + 1)
  /\ UNCHANGED <<histVars, obsVars, fnVars, currentRoute, pendingLocation, afterGuards,
                 errorListeners, readyVars, navs>>

NextGuards ==
  \/ \E n \in PairNavs, raw \in PushTargets : Push(n, raw, FALSE, FALSE, 2)
  \/ \E n \in PairNavs, ret \in GuardReturns : GuardRun(n, ret, MaxHops)
  \/ \E n \in PairNavs : PhaseEnd(n)
  \/ \E n \in PairNavs : Catch(n)
  \/ \E n \in PairNavs : ThenRedirect(n)
  \/ \E n \in PairNavs : ThenFailure(n)
  \/ \E n \in PairNavs : ThenFinalize(n)
  \/ InstallMany

SpecGuards == Init /\ [][NextGuards]_vars

(***************************************************************************)
(* Claims about the order of the guards                                    *)
(***************************************************************************)
\* the phase a guard belongs to, by what kind of guard it is
PhaseOfKind(kind) ==
  CASE kind \in {"beforeRouteLeave", "leaveGuards"} -> 1
    [] kind = "beforeEach" -> 2
    [] kind \in {"beforeRouteUpdate", "updateGuards"} -> 3
    [] kind = "beforeEnter" -> 4
    [] kind = "beforeRouteEnter" -> 5
    [] kind = "beforeResolve" -> 6

\* inside one call of navigate(): its guards are running or a phase is ending
InNavigate(nav) == nav.pc \in {"guard", "check"}

\* the step starts a guard of the navigation
StartsGuard(a, b) ==
  /\ b.pc = "guard"
  /\ a.pc # "guard" \/ a.phase # b.phase \/ a.gi # b.gi \/ a.to.obj # b.to.obj

\* the step belongs to one call of navigate()
SameNavigate(a, b) == InNavigate(a) /\ InNavigate(b) /\ a.to.obj = b.to.obj

\* the guard that was running in a has settled without a failure: nothing
\* but a guard that returns nothing takes a to b
SettledWell(a, b) ==
  /\ a.pc = "guard"
  /\ \A ret \in GuardReturns : b = RunGuard(a, ret) => ret.kind = "ok"

\* C23: within one navigation the phases run in the order leave guards,
\* global before guards, update guards, before-enter guards, in-component
\* enter guards, global before-resolve guards: a call of navigate() starts in
\* the first phase, every guard belongs to the phase that is running, a phase
\* ends only when the last guard of its queue has settled without a failure,
\* and the next phase, which is the following one in the order, is entered
\* only by the cancellation check of the phase before, which has passed.
C23_PhasesInOrder ==
  [][ \A n \in PairNavs :
        LET a == navs[n]
            b == navs'[n]
        IN  /\ StartsGuard(a, b) => PhaseOfKind(b.gq[b.gi].kind) = b.phase
            /\ (InNavigate(b) /\ ~SameNavigate(a, b)) => b.phase = 1 /\ b.gi = 1
            /\ (SameNavigate(a, b) /\ a # b) =>
                 \/ b = [a EXCEPT !.stale = TRUE]
                 \/ /\ b.phase = a.phase /\ b.gq = a.gq
                    /\ SettledWell(a, b)
                    /\ \/ b.pc = "guard" /\ b.gi = a.gi + 1
                       \/ b.pc = "check" /\ a.gi = Len(a.gq)
                 \/ /\ b.phase = a.phase + 1 /\ b.gi = 1
                    /\ a.pc = "check"
                    /\ CheckCanceledNavigation(pendingLocation, a.to) = "none"
                    /\ b.pc = "check" <=> b.gq = <<>>
    ]_vars

\* a navigation from /p/x to /p/y has reached the second guard of its last
\* phase after guards ran in the phases of leave, global before, update and
\* in-component enter guards; the navigation that led to /p/x ran the
\* before-enter guard of that record
C23_Witness ==
  \E n \in PairNavs :
    /\ navs[n].pc = "guard" /\ navs[n].phase = 6 /\ navs[n].gi = 2
    /\ navs[n].to.matched = <<"P", "Y">> /\ navs[n].from.matched = <<"P", "X">>
    /\ \A phase \in {1, 2, 3, 5} :
         PhaseGuards(phase, navs[n].to, navs[n].from, beforeGuards, beforeResolveGuards)
           # <<>>
    /\ PhaseGuards(4, navs[n].from, START_LOCATION_NORMALIZED, beforeGuards,
                   beforeResolveGuards) # <<>>

\* C24: the guards of one phase run one after another in list order: the
\* guard that starts in a phase that is running is the next of the queue,
\* and it starts in the step in which the guard before it settles; a guard
\* that returns false or a redirect, or throws, ends the call of navigate(),
\* after which no guard starts but the first guard of a new call of
\* navigate() made for a redirect.
C24_GuardsOneByOne ==
  [][ \A n \in PairNavs :
        LET a == navs[n]
            b == navs'[n]
        IN  /\ (a.pc = "guard" /\ a # b) =>
                 \/ /\ SettledWell(a, b) /\ b.gq = a.gq /\ b.phase = a.phase
                    /\ IF a.gi < Len(a.gq) THEN b.pc = "guard" /\ b.gi = a.gi + 1
                       ELSE b.pc = "check"
                 \/ /\ b.pc = "caught" /\ b.failure \in {"aborted", "redirect", "error"}
                    /\ \E ret \in GuardReturns : ret.kind # "ok" /\ b = RunGuard(a, ret)
                 \/ b = [a EXCEPT !.stale = TRUE]
            /\ (StartsGuard(a, b) /\ a.pc \in {"caught", "then", "done"}) =>
                 /\ a.pc = "then" /\ a.failure = "redirect"
                 /\ b.to.obj # a.to.obj
                 /\ b.phase = 1 /\ b.gi = 1
    ]_vars

\* the second guard of a phase has returned false after the first let the
\* navigation through
C24_Witness ==
  \E n \in PairNavs :
    /\ navs[n].pc = "caught" /\ navs[n].failure = "aborted"
    /\ navs[n].gi = 2 /\ Len(navs[n].gq) >= 2
    /\ navs[n].gq[2].kind = "beforeEach"

(***************************************************************************)
(* router.ts : extractChangingRecords and the queues navigate() builds     *)
(* from it, for every pair of matched chains                               *)
(***************************************************************************)
MaxDepth == 2

ChainRecords == {"Q", "Z", "Z2", "A", "A2", "B"}

\* the matched chains: no record twice, and no record beside its alias
Chains ==
  UNION { { c \in [1..n -> ChainRecords] :
              \A i, j \in 1..n : i # j => ~IsSameRouteRecord(c[i], c[j]) } :
          n \in 0..MaxDepth }

ChainInit ==
  /\ HistInit /\ RouterInit /\ output = NotRun
  /\ \E to \in Chains, from \in Chains :
       input = [fn |-> "extractChangingRecords", to |-> to, from |-> from]

\* navigate(to, from) up to the queues of its first and third phase
ChainExtract ==
  /\ input.fn = "extractChangingRecords" /\ output = NotRun
  /\ LET to == [matched |-> input.to]
         from == [matched |-> input.from]
         ch == ExtractChangingRecords(to, from)
     IN  output' = [ status |-> "ok", leaving |-> ch.leaving, updating |-> ch.updating,
                     entering |-> ch.entering,
                     leaveQueue |-> PhaseGuards(1, to, from, <<>>, <<>>),
                     updateQueue |-> PhaseGuards(3, to, from, <<>>, <<>>) ]
  /\ UNCHANGED <<histVars, obsVars, routerVars, input, tableVars>>

ChainNext == ChainExtract

SpecChains == ChainInit /\ [][ChainNext]_vars

(***************************************************************************)
(* Claims about the changing records                                       *)
(***************************************************************************)
Extracted == input.fn = "extractChangingRecords" /\ output # NotRun

\* the record is in the chain, an alias counting as the record it aliases
InChain(chain, r) == \E i \in 1..Len(chain) : IsSameRouteRecord(chain[i], r)

\* the depth of the record a guard belongs to, in the chain
DepthIn(chain, r) == CHOOSE i \in 1..Len(chain) : chain[i] = r

\* the three lists are what the claim says they are, in the order of the chains
ChangingRecordsAsClaimed ==
  /\ output.leaving = SelectSeq(input.from, LAMBDA r : ~InChain(input.to, r))
  /\ output.updating = SelectSeq(input.from, LAMBDA r : InChain(input.to, r))
  /\ output.entering = SelectSeq(input.to, LAMBDA r : ~InChain(input.from, r))
  /\ \A i \in 1..Len(input.from) :
       (input.from[i] \in Range(output.leaving)) # (input.from[i] \in Range(output.updating))

\* no leave guard runs before a leave guard of a deeper record
LeaveGuardsDeepestFirst ==
  \A i, j \in 1..Len(output.leaveQueue) :
    i < j => DepthIn(input.from, output.leaveQueue[i].of)
               >= DepthIn(input.from, output.leaveQueue[j].of)

\* no update guard runs before an update guard of a shallower record
UpdateGuardsShallowestFirst ==
  \A i, j \in 1..Len(output.updateQueue) :
    i < j => DepthIn(input.from, output.updateQueue[i].of)
               <= DepthIn(input.from, output.updateQueue[j].of)

\* C25 (as claimed): extractChangingRecords returns leaving = the records of
\* from.matched absent from to.matched, updating = the records of
\* from.matched present in to.matched, entering = the records of to.matched
\* absent from from.matched, an alias counting as the record it aliases;
\* every record of from.matched is in exactly one of leaving and updating;
\* the leave guards run deepest record first and the update guards
\* shallowest record first.
C25_ChangingRecords ==
  Extracted =>
    /\ ChangingRecordsAsClaimed
    /\ LeaveGuardsDeepestFirst
    /\ UpdateGuardsShallowestFirst

\* C25, the part about the three lists alone
C25_ListsAsClaimed == Extracted => ChangingRecordsAsClaimed

(***************************************************************************)
(* Claims about the history calls of finalizeNavigation                    *)
(***************************************************************************)
\* the step commits navigation n: finalizeNavigation assigns currentRoute
Commits(n) == navs'[n].commits = navs[n].commits + 1

\* the step makes no call of routerHistory.push or routerHistory.replace
NoHistoryCall(n) == navs'[n].histOps = navs[n].histOps /\ UNCHANGED histVars

\* the step makes one call of routerHistory.push or routerHistory.replace,
\* with the fullPath of the target
OneHistoryCall(n) ==
  /\ \E op \in {"push", "replace"} : navs'[n].histOps = Append(navs[n].histOps, op)
  /\ MemLocation(queue', position') = navs[n].to.fullPath

RedirectPushTargets == {Raw("/b", NoQuery, ""), Raw("/r2", NoQuery, "")}

RedirectGuardReturns ==
  {Returns("ok"), RedirectsTo(Raw("/r", NoQuery, "")), RedirectsTo(Raw("/b", NoQuery, ""))}

RedirectDeltas == {-1}

NextRedirect ==
  \/ \E n \in Navs, raw \in RedirectPushTargets, replace \in BOOLEAN :
       Push(n, raw, replace, FALSE, 1)
  \/ \E n \in Navs, delta \in RedirectDeltas : RouterGo(n, delta, 1)
  \/ \E n \in Navs, ret \in RedirectGuardReturns : GuardRun(n, ret, MaxHops + 1)
  \/ \E n \in Navs : PhaseEnd(n)
  \/ \E n \in Navs : Catch(n)
  \/ \E n \in Navs : ThenRedirect(n)
  \/ \E n \in Navs : ThenFailure(n)
  \/ \E n \in Navs : ThenFinalize(n)
  \/ \E n \in Navs : PopCatch(n)
  \/ \E n \in Navs : PopThen(n)
  \/ \E n \in Navs : PopRedirectSettled(n)
  \/ Install

SpecRedirect == Init /\ [][NextRedirect]_vars

(***************************************************************************)
(* Claims about redirects                                                  *)
(***************************************************************************)
\* the location the first call of pushWithRedirect, or the history listener,
\* resolved for navigation n
FirstResolved(n) == <<n, 1>>

\* C27: the location committed after a chain of one or more redirects, of
\* route records, of guards or of both, carries as redirectedFrom the
\* location resolved for the first target of the chain, never an
\* intermediate one: redirectedFrom is set by the first redirect to the
\* location the navigation was heading to and is never changed after; a
\* location committed without any redirect has redirectedFrom undefined.
C27_RedirectedFromFirst ==
  [][ \A n \in Navs :
        /\ Commits(n) =>
             /\ currentRoute' = navs[n].to
             /\ IF navs[n].objs = 1
                  THEN currentRoute'.redirectedFrom = NoRef
                  ELSE currentRoute'.redirectedFrom.obj = FirstResolved(n)
        /\ (navs[n].rfrom # NoRef /\ navs'[n].pc # "idle") =>
             navs'[n].rfrom = navs[n].rfrom
        /\ (navs[n].pc # "idle" /\ navs[n].rfrom = NoRef /\ navs'[n].rfrom # NoRef) =>
             /\ navs[n].to.obj = FirstResolved(n)
             /\ navs'[n].rfrom = RefOf(navs[n].to)
    ]_vars

\* /r2 was pushed, its records redirected to /r and to /a, a guard then
\* redirected to /b and another to /r, and /a was committed
C27_Witness ==
  \E n \in Navs :
    /\ navs[n].pc = "done" /\ navs[n].commits = 1 /\ navs[n].hops = 2
    /\ navs[n].objs >= 6
    /\ currentRoute = navs[n].to /\ currentRoute.path = "/a"
    /\ currentRoute.redirectedFrom = [obj |-> FirstResolved(n), fullPath |-> <<"/r2", "">>]

\* C28: a router.replace(target) that commits calls replace on the history
\* and never push, also when the navigation went through redirects of route
\* records or of guards: the navigation carries the replace flag of the
\* request from its start to its commit, and the commit of a navigation that
\* carries it calls replace and adds no entry to the in-memory queue.
C28_ReplaceNeverPushes ==
  [][ \A n \in Navs :
        /\ (navs[n].pc = "idle" /\ navs'[n].pc # "idle") =>
             \A raw \in RedirectPushTargets :
               navs'[n] = PushWithRedirect(n, navs[n], raw, TRUE, FALSE, NoRef,
                            currentRoute, beforeGuards, beforeResolveGuards,
                            Threw("RangeError"))
                 => navs'[n].replace
        /\ (navs[n].pc # "idle" /\ navs[n].replace) => navs'[n].replace
        /\ (Commits(n) /\ navs[n].replace /\ ~navs[n].pop) =>
             /\ navs'[n].histOps = Append(navs[n].histOps, "replace")
             /\ Len(queue') <= Len(queue)
             /\ MemLocation(queue', position') = navs[n].to.fullPath
    ]_vars

\* a replace of /r2 made after the first navigation was committed after
\* redirects of records and of a guard, and the queue still has one entry
C28_Witness ==
  \E n \in Navs :
    /\ navs[n].pc = "done" /\ navs[n].commits = 1 /\ navs[n].replace
    /\ navs[n].from.obj # StartObj
    /\ navs[n].hops >= 1 /\ navs[n].objs >= 5
    /\ navs[n].rfrom.fullPath = <<"/r2", "">>
    /\ navs[n].histOps = <<"replace">>
    /\ Len(queue) = 1 /\ Location = navs[n].to.fullPath

(***************************************************************************)
(* utils/callbacks.ts and navigate(): a global guard that changes its      *)
(* registry while the phase runs                                           *)
(***************************************************************************)
\* the function add() returns: const i = handlers.indexOf(handler);
\* if (i > -1) handlers.splice(i, 1)
CallbacksRemove(handlers, handler) ==
  IF \E i \in 1..Len(handlers) : handlers[i] = handler
    THEN LET i == CHOOSE k \in 1..Len(handlers) :
                    handlers[k] = handler /\ \A j \in 1..(k - 1) : handlers[j] # handler
         IN  SubSeq(handlers, 1, i - 1) \o SubSeq(handlers, i + 1, Len(handlers))
    ELSE handlers

\* mutant: list() hands out the array of the registry itself
CallbacksList_Live(handed, handlers) == handlers

\* list: () => handlers.slice(): the array handed out when the phase started
\* is a copy, which a later change of handlers does not reach
CallbacksList(handed, handlers) == handed

\* the handlers of the guards of a queue of global guards
HandlersOf(gq) == [i \in 1..Len(gq) |-> gq[i].of]

\* the handler a guard registers while a phase runs
LateHandler == MaxGuards + 2

\* the queue of the phase of global guards that navigation nav is running,
\* after the registry of the phase became `handlers`
QueueAfterChange(nav, handlers) ==
  GlobalGuards(IF nav.phase = 2 THEN "beforeEach" ELSE "beforeResolve",
               CallbacksList(HandlersOf(nav.gq), handlers))

\* the global guard that is running changes the registry it came from: it
\* calls the function add() returned for itself or for a guard after it, or
\* registers one more guard
GuardChangesRegistry(n, k, register) ==
  /\ navs[n].pc = "guard" /\ navs[n].phase \in {2, 6}
  /\ k \in navs[n].gi..Len(navs[n].gq)
  /\ LET nav == navs[n]
         registry == IF nav.phase = 2 THEN beforeGuards ELSE beforeResolveGuards
         changed == IF register THEN CallbacksAdd(registry, LateHandler)
                    ELSE CallbacksRemove(registry, nav.gq[k].of)
     IN  /\ register => \A i \in 1..Len(registry) : registry[i] # LateHandler
         /\ changed # registry
         /\ beforeGuards' = IF nav.phase = 2 THEN changed ELSE beforeGuards
         /\ beforeResolveGuards' = IF nav.phase = 6 THEN changed ELSE beforeResolveGuards
         /\ navs' = [navs EXCEPT ![n].gq = QueueAfterChange(nav, changed)]
  /\ UNCHANGED <<histVars, obsVars, fnVars, currentRoute, pendingLocation, afterGuards,
                 errorListeners, readyVars>>

SnapshotGuardReturns == {Returns("ok"), Returns("false")}

NextSnapshot ==
  \/ \E n \in PairNavs, raw \in PushTargets : Push(n, raw, FALSE, FALSE, 1)
  \/ \E n \in PairNavs, ret \in SnapshotGuardReturns : GuardRun(n, ret, MaxHops)
  \/ \E n \in PairNavs : PhaseEnd(n)
  \/ \E n \in PairNavs : Catch(n)
  \/ \E n \in PairNavs : ThenFailure(n)
  \/ \E n \in PairNavs : ThenFinalize(n)
  \/ InstallMany
  \/ \E n \in PairNavs, k \in 1..(MaxGuards + 2), register \in BOOLEAN :
       GuardChangesRegistry(n, k, register)

SpecSnapshot == Init /\ [][NextSnapshot]_vars

(***************************************************************************)
(* Claims about the registries of global guards                            *)
(***************************************************************************)
\* C29: the global guards run in a phase are the content of the registry at
\* the moment the phase starts: the queue of a phase of global guards is the
\* registry as it is when the phase is entered, and while the phase runs the
\* queue stays what it is, whether a running guard unregisters itself or a
\* guard after it or registers a new guard; the guards of the queue then run
\* one after another up to the last.
C29_PhaseRunsSnapshot ==
  [][ \A n \in PairNavs :
        LET a == navs[n]
            b == navs'[n]
        IN  /\ (b.phase \in {2, 6} /\ InNavigate(b)
                  /\ (a.phase # b.phase \/ ~InNavigate(a))) =>
                 HandlersOf(b.gq) = IF b.phase = 2 THEN beforeGuards'
                                    ELSE beforeResolveGuards'
            /\ (InNavigate(a) /\ InNavigate(b) /\ a.phase = b.phase /\ a.phase \in {2, 6}) =>
                 /\ b.gq = a.gq
                 /\ b.gi \in {a.gi, a.gi + 1}
                 /\ (b.pc = "check" /\ a.pc = "guard") => a.gi = Len(a.gq)
    ]_vars

\* the second guard of the pass is running after the first unregistered it
\* and registered one more guard, which is not in the queue
C29_Witness ==
  \E n \in PairNavs :
    /\ navs[n].pc = "guard" /\ navs[n].phase = 2 /\ navs[n].gi = 2
    /\ \A i \in 1..Len(beforeGuards) : beforeGuards[i] # navs[n].gq[2].of
    /\ \E i \in 1..Len(beforeGuards) : beforeGuards[i] = LateHandler
    /\ \A i \in 1..Len(navs[n].gq) : navs[n].gq[i].of # LateHandler

(***************************************************************************)
(* The router with navigations by push, replace and router.go that may     *)
(* overlap                                                                 *)
(***************************************************************************)
\* guard redirects one navigation follows
RaceHops == 1

\* router.push('/a') and router.replace('/b')
RaceCalls ==
  { [raw |-> Raw("/a", NoQuery, ""), replace |-> FALSE],
    [raw |-> Raw("/b", NoQuery, ""), replace |-> TRUE] }

RaceGuardReturns == {Returns("ok"), RedirectsTo(Raw("/a", NoQuery, ""))}

RaceDeltas == {-1}

\* the application registers one guard with router.beforeEach
InstallBefore ==
  /\ beforeGuards = <<>>
  /\ beforeGuards' = CallbacksAdd(beforeGuards, 1)
  /\ UNCHANGED <<histVars, obsVars, fnVars, currentRoute, pendingLocation,
                 beforeResolveGuards, afterGuards, errorListeners, readyVars, navs>>

NextRace ==
  \/ \E n \in Navs, call \in RaceCalls : Push(n, call.raw, call.replace, FALSE, 2)
  \/ \E n \in Navs, delta \in RaceDeltas : RouterGo(n, delta, 2)
  \/ \E n \in Navs, ret \in RaceGuardReturns : GuardRun(n, ret, RaceHops)
  \/ \E n \in Navs : PhaseEnd(n)
  \/ \E n \in Navs : Catch(n)
  \/ \E n \in Navs : ThenRedirect(n)
  \/ \E n \in Navs : ThenFailure(n)
  \/ \E n \in Navs : ThenFinalize(n)
  \/ \E n \in Navs : PopCatch(n)
  \/ \E n \in Navs : PopThen(n)
  \/ \E n \in Navs : PopRedirectSettled(n)
  \/ InstallBefore

SpecRace == Init /\ [][NextRace]_vars

(***************************************************************************)
(* Claims about pendingLocation                                            *)
(***************************************************************************)
\* the step resolves a target for navigation n
ResolvesTarget(n) == navs'[n].to.obj # navs[n].to.obj

\* C30: in every interleaving of push, replace and history pop
\* notifications pendingLocation is the target of the navigation resolved
\* last: a step that resolves a target makes it pendingLocation and no
\* other step changes pendingLocation; currentRoute is only assigned the
\* target of a navigation that is pendingLocation at that moment, and a
\* navigation whose target is not pendingLocation neither calls push or
\* replace on the history nor sets currentRoute.
C30_OnlyPendingCommits ==
  [][ /\ \A n \in Navs : ResolvesTarget(n) => pendingLocation' = navs'[n].to.obj
      /\ pendingLocation' # pendingLocation => \E n \in Navs : ResolvesTarget(n)
      /\ currentRoute' # currentRoute =>
           \E n \in Navs : /\ Commits(n)
                           /\ currentRoute' = navs[n].to
                           /\ pendingLocation = navs[n].to.obj
      /\ \A n \in Navs :
           (navs[n].to.obj # pendingLocation /\ ~ResolvesTarget(n)) =>
             /\ navs'[n].histOps = navs[n].histOps
             /\ navs'[n].commits = navs[n].commits
    ]_vars

\* a push that a history pop notification superseded has ended cancelled
\* without a history call, and the navigation of the notification committed
C30_Witness ==
  \E n, m \in Navs :
    /\ n # m
    /\ navs[n].pc = "done" /\ ~navs[n].pop /\ navs[n].result = Resolved("cancelled")
    /\ navs[n].histOps = <<>> /\ navs[n].commits = 0 /\ navs[n].phase = 6
    /\ navs[m].pc = "done" /\ navs[m].pop /\ navs[m].commits = 1
    /\ currentRoute = navs[m].to /\ pendingLocation = navs[m].to.obj

(***************************************************************************)
(* The router with four navigations by push and router.go, two of which    *)
(* may overlap: a history pop notification that a later navigation         *)
(* supersedes                                                              *)
(***************************************************************************)
CancelTargets == {Raw("/a", NoQuery, ""), Raw("/b", NoQuery, "")}

CancelDeltas == {-1}

CancelGuardReturns == {Returns("ok"), Returns("false")}

NextCancel ==
  \/ \E n \in AllNavs, raw \in CancelTargets : Push(n, raw, FALSE, FALSE, 2)
  \/ \E n \in AllNavs, delta \in CancelDeltas : RouterGo(n, delta, 2)
  \/ \E n \in AllNavs, ret \in CancelGuardReturns : GuardRun(n, ret, RaceHops)
  \/ \E n \in AllNavs : PhaseEnd(n)
  \/ \E n \in AllNavs : Catch(n)
  \/ \E n \in AllNavs : ThenFailure(n)
  \/ \E n \in AllNavs : ThenFinalize(n)
  \/ \E n \in AllNavs : PopCatch(n)
  \/ \E n \in AllNavs : PopThen(n)
  \/ InstallBefore

SpecCancel == Init /\ [][NextCancel]_vars

(***************************************************************************)
(* Claims about a history pop that a later navigation supersedes           *)
(***************************************************************************)
\* the step settles the navigation of a pop notification as cancelled
PopEndsCancelled(n) ==
  /\ navs[n].pop /\ navs[n].pc # "done"
  /\ navs'[n].pc = "done" /\ navs'[n].result = Resolved("cancelled")

\* C31: when the navigation started by a history pop notification ends
\* cancelled because a later navigation superseded it, the listener calls
\* no routerHistory.go: the step that settles it leaves the position and
\* the queue of the history as they are, so the pointer stays where the pop
\* (and the later navigation) put it.
C31_CancelledPopIsNotReverted ==
  [][\A n \in AllNavs : PopEndsCancelled(n) => position' = position /\ queue' = queue]_vars

\* a pop that moved the pointer back from a later entry has ended cancelled,
\* nothing moved the pointer since, and an entry lies ahead of it that a
\* revert would have moved to
C31_Witness ==
  \E n \in AllNavs :
    /\ navs[n].pop /\ navs[n].pc = "done" /\ navs[n].result = Resolved("cancelled")
    /\ navs[n].delta = -1 /\ navs[n].origPos = position + 1
    /\ position + 1 < Len(queue)
    /\ \E m \in AllNavs : m > n /\ navs[m].pc \notin {"idle", "done"}

(***************************************************************************)
(* Claims about replace in the memory history                              *)
(***************************************************************************)
\* the step is a call of routerHistory.replace
ReplaceStep == lastOp'.op = "replace"

\* C32: in the memory history replace(to) puts `to` in the place of the
\* current entry and changes nothing else: the position and the length of
\* the queue are unchanged and every other entry, before and after the
\* current position, stays at its index.
C32_ReplaceChangesOnlyCurrent ==
  [][ReplaceStep =>
       /\ position' = position
       /\ Len(queue') = Len(queue)
       /\ \A i \in 1..Len(queue) :
            queue'[i] = IF i = position + 1 THEN lastOp'.arg ELSE queue[i]
    ]_vars

\* what replace(to) does keep: the position, the entries before it, and
\* `to` as the current and last entry
C32_ReplaceKeepsEarlierEntries ==
  [][ReplaceStep =>
       /\ position' = position
       /\ Len(queue') = position + 1
       /\ \A i \in 1..position : queue'[i] = queue[i]
       /\ queue'[position + 1] = lastOp'.arg
    ]_vars

(***************************************************************************)
(* matcher/pathMatcher.ts : createRouteRecordMatcher called any number of  *)
(* times; here `matchers` holds the matchers in the order of their         *)
(* creation, the id of a matcher being its index                           *)
(***************************************************************************)
\* calls of createRouteRecordMatcher
MaxMatchers == 3

\* insertion of a child at the position its rank gives it
InsertByRank(children, ms, m) ==
  LET before == {i \in 1..Len(children) :
                   ComparePathParserScore(m.score, ms[children[i]].score) < 0}
      i == IF before = {} THEN Len(children) + 1
           ELSE CHOOSE k \in before : \A j \in before : k <= j
  IN  SubSeq(children, 1, i - 1) \o <<m.id>> \o SubSeq(children, i, Len(children))

\* mutant: the parent takes every matcher as its child
PushChild_Mixed(ms, m) ==
  [k \in 1..Len(ms) |->
     IF k = m.parent THEN [ms[k] EXCEPT !.children = Append(@, m.id)] ELSE ms[k]]

\* mutant: the parent keeps its children in rank order
PushChild_ByRank(ms, m) ==
  [k \in 1..Len(ms) |->
     IF k = m.parent /\ (m.aliasOf = 0) = (ms[k].aliasOf = 0)
       THEN [ms[k] EXCEPT !.children = InsertByRank(@, ms, m)]
       ELSE ms[k]]

\* if (parent) { if (!matcher.record.aliasOf === !parent.record.aliasOf)
\*   parent.children.push(matcher) }
PushChild(ms, m) ==
  [k \in 1..Len(ms) |->
     IF k = m.parent /\ (m.aliasOf = 0) = (ms[k].aliasOf = 0)
       THEN [ms[k] EXCEPT !.children = Append(@, m.id)]
       ELSE ms[k]]

\* the patterns of the records
MatcherPaths ==
  { <<"/", "a">>, <<"/", "a", "/", "a">>, <<"/", "a", "/", ":", "a">> }

\* createRouteRecordMatcher(record, parent): record.aliasOf and parent are
\* matchers created before, or 0 for undefined
CreateMatcher(path, aliasOf, parent) ==
  /\ created < MaxMatchers
  /\ LET m == CreateRouteRecordMatcher(created + 1, "", path, aliasOf, parent)
     IN  /\ matchers' = Append(PushChild(matchers, m), m)
         /\ created' = created + 1
         /\ input' = [fn |-> "createRouteRecordMatcher", path |-> path,
                       aliasOf |-> aliasOf, parent |-> parent]
         /\ output' = [status |-> "ok", id |-> m.id]
  /\ UNCHANGED <<histVars, obsVars, routerVars, matcherMap>>

MatchersNext ==
  \E path \in MatcherPaths, aliasOf \in 0..created, parent \in 0..created :
    CreateMatcher(path, aliasOf, parent)

SpecMatchers == Init /\ [][MatchersNext]_vars

(***************************************************************************)
(* Claims about the children lists                                         *)
(***************************************************************************)
IsAliasMatcher(m) == m.aliasOf # 0

ChildrenOf(p) == {matchers[p].children[k] : k \in 1..Len(matchers[p].children)}

\* C33: after any sequence of createRouteRecordMatcher calls every matcher
\* in a parent's children list is an alias matcher exactly when the parent
\* is one, and a matcher is in at most one children list, once, and that
\* list is the one of its own parent.
C33_ChildrenAreNeverMixed ==
  \A p \in 1..Len(matchers) :
    /\ \A c \in ChildrenOf(p) :
         /\ IsAliasMatcher(matchers[c]) <=> IsAliasMatcher(matchers[p])
         /\ matchers[c].parent = p
    /\ Cardinality(ChildrenOf(p)) = Len(matchers[p].children)

\* a parent has a child in its list and was also given as the parent of a
\* matcher of the other kind, which is not in the list
C33_Witness ==
  \E p, c, d \in 1..Len(matchers) :
    /\ c \in ChildrenOf(p)
    /\ matchers[d].parent = p /\ d \notin ChildrenOf(p)
    /\ IsAliasMatcher(matchers[d]) # IsAliasMatcher(matchers[p])

\* C34: after any sequence of insertions of child matchers under a parent
\* the parent's children list is ordered by descending rank: for
\* consecutive children c1, c2, comparePathParserScore(c1, c2) <= 0.
C34_ChildrenByDescendingRank ==
  \A p \in 1..Len(matchers) :
    \A k \in 1..(Len(matchers[p].children) - 1) :
      ComparePathParserScore(matchers[matchers[p].children[k]].score,
                             matchers[matchers[p].children[k + 1]].score) <= 0

\* C34 as the code has it: the children list is in the order of the calls,
\* each new child being put at its end, whatever its rank.
C34_ChildrenInCreationOrder ==
  \A p \in 1..Len(matchers) :
    \A k \in 1..(Len(matchers[p].children) - 1) :
      matchers[p].children[k] < matchers[p].children[k + 1]

\* a parent whose second child ranks before its first
C34_Witness ==
  \E p \in 1..Len(matchers) :
    /\ Len(matchers[p].children) = 2
    /\ ComparePathParserScore(matchers[matchers[p].children[1]].score,
                              matchers[matchers[p].children[2]].score) > 0

(***************************************************************************)
(* Claims about the score of the root pattern                              *)
(***************************************************************************)
\* tokensToParser was applied to the root pattern '/' as the first parser
RootCompiled ==
  input.fn = "comparePathParserScore" /\ output # NotRun /\ input.a = <<"/">>

\* every score entry that a static or parameter token of the second
\* pattern contributed is lower than `score`
TokenEntriesBelow(score) ==
  LET segments == TokenizePath(input.b).tokens
  IN  \A s \in 1..Len(segments) :
        Len(segments[s]) > 0 =>
          \A k \in 1..Len(output.bScore[s]) : output.bScore[s][k] < score

\* C35: compiling the root pattern '/' yields a score of exactly one segment
\* with exactly one entry, the fixed Root score, which is strictly higher
\* than the score entry of any static or parameter token under any options.
C35_RootScoreIsFixed ==
  RootCompiled =>
    /\ output.aScore = << <<PathScoreRoot>> >>
    /\ TokenEntriesBelow(PathScoreRoot)

\* what the code gives: tokenizePath('/') is one segment holding the static
\* token of empty text, so the single entry of the score of '/' is the entry
\* of a static token, with the bonuses of the options
C35_RootScoresAsStaticToken ==
  RootCompiled =>
    output.aScore =
      << <<PathScoreSegment + PathScoreStatic
           + (IF input.aOptions.sensitive THEN PathScoreBonusCaseSensitive ELSE 0)
           + (IF input.aOptions.strict /\ input.aOptions.end
                THEN PathScoreBonusStrict ELSE 0)>> >>

(***************************************************************************)
(* comparePathParserScore applied to two parsers in both orders            *)
(***************************************************************************)
\* patterns with and without a trailing splat parameter
OrderPatterns ==
  { <<"/">>,
    <<"/", "a">>,
    <<"/", ":", "a">>,
    <<"/", "a", "/", "a">>,
    <<"/", ":", "a", "(", ".", "*", ")">>,
    <<"/", ":", "a", "(", ".", "*", ")", "*">>,
    <<"/", "a", "/", ":", "a", "(", ".", "*", ")", "*">>,
    <<"/", ":", "a", "(", ".", "*", ")", "*", "/", ":", "b", "(", ".", "*", ")", "*">> }

OrderInit ==
  /\ HistInit /\ RouterInit
  /\ input \in {[fn |-> "comparePathParserScore", a |-> a, b |-> b,
                  aOptions |-> ao, bOptions |-> bo] :
                   a \in OrderPatterns, b \in OrderPatterns,
                   ao \in PathParserOptions, bo \in PathParserOptions}
  /\ output = NotRun

\* comparePathParserScore(a, b) and comparePathParserScore(b, a) for the
\* parsers a and b that tokensToParser made
CompareBoth ==
  /\ input.fn = "comparePathParserScore"
  /\ output = NotRun
  /\ LET aScore == ParserScore(TokenizePath(input.a).tokens, input.aOptions)
         bScore == ParserScore(TokenizePath(input.b).tokens, input.bOptions)
     IN  output' = [status |-> "ok", aScore |-> aScore, bScore |-> bScore,
                    ab |-> ComparePathParserScore(aScore, bScore),
                    ba |-> ComparePathParserScore(bScore, aScore)]
  /\ UNCHANGED <<histVars, obsVars, routerVars, input, tableVars>>

OrderNext == CompareBoth

SpecOrder == OrderInit /\ [][OrderNext]_vars

(***************************************************************************)
(* Claims about the comparator                                             *)
(***************************************************************************)
Sign(n) == IF n < 0 THEN -1 ELSE IF n > 0 THEN 1 ELSE 0

\* C36: comparePathParserScore is antisymmetric over the scores that
\* tokensToParser produces: for every pair a, b, compare(a, b) and
\* compare(b, a) have opposite signs or are both zero.
C36_CompareIsAntisymmetric ==
  Compared => Sign(output.ab) = -Sign(output.ba)

\* where the comparator is antisymmetric: everywhere but on two scores that
\* agree on their common segments, differ in length by one and both end in
\* a negative entry
C36_AntisymmetricButForTwoSplats ==
  Compared =>
    \/ Sign(output.ab) = -Sign(output.ba)
    \/ /\ FirstComp(output.aScore, output.bScore, 1) = 0
       /\ Abs(Len(output.bScore) - Len(output.aScore)) = 1
       /\ IsLastScoreNegative(output.aScore) /\ IsLastScoreNegative(output.bScore)
       /\ output.ab = 1 /\ output.ba = 1

(***************************************************************************)
(* utils/callbacks.ts : one list made by useCallbacks, with add, the       *)
(* removal functions add returned, and reset.  `output` holds the list     *)
(* and, for the claims, which call of add each entry and each removal      *)
(* function comes from.                                                    *)
(***************************************************************************)
\* calls of add
MaxAdds == 3

\* calls of one removal function
MaxRemoveCalls == 2

\* the handlers given to add
CallbackHandlers == {1, 2}

\* handlers: the array of the list; regOf: for each entry the call of add
\* that pushed it; owner: for each call of add the handler it was given;
\* calls: how often the removal function it returned has been called
CallbacksInit ==
  /\ HistInit /\ RouterInit
  /\ input = NoInput
  /\ output = [handlers |-> <<>>, regOf |-> <<>>, owner |-> <<>>, calls |-> <<>>]

\* the index handlers.indexOf(handler) finds, 0 for -1
FirstIndexOf(handlers, handler) ==
  IF \E i \in 1..Len(handlers) : handlers[i] = handler
    THEN CHOOSE k \in 1..Len(handlers) :
           handlers[k] = handler /\ \A j \in 1..(k - 1) : handlers[j] # handler
    ELSE 0

\* the sequence without its i-th element, the sequence itself when i = 0
Without(seq, i) ==
  IF i = 0 THEN seq ELSE SubSeq(seq, 1, i - 1) \o SubSeq(seq, i + 1, Len(seq))

\* add(handler)
CbAdd(handler) ==
  /\ Len(output.owner) < MaxAdds
  /\ input' = [fn |-> "add", handler |-> handler, reg |-> Len(output.owner) + 1, call |-> 0]
  /\ output' = [handlers |-> CallbacksAdd(output.handlers, handler),
                regOf |-> Append(output.regOf, Len(output.owner) + 1),
                owner |-> Append(output.owner, handler),
                calls |-> Append(output.calls, 0)]
  /\ UNCHANGED <<histVars, obsVars, routerVars, tableVars>>

\* a call of the function that the reg-th call of add returned
CbRemove(reg) ==
  /\ reg \in 1..Len(output.owner)
  /\ output.calls[reg] < MaxRemoveCalls
  /\ input' = [fn |-> "remove", handler |-> output.owner[reg], reg |-> reg,
               call |-> output.calls[reg] + 1]
  /\ output' = [output EXCEPT
                  !.handlers = CallbacksRemove(@, output.owner[reg]),
                  !.regOf = Without(@, FirstIndexOf(output.handlers, output.owner[reg])),
                  !.calls[reg] = @ + 1]
  /\ UNCHANGED <<histVars, obsVars, routerVars, tableVars>>

\* reset(): handlers = []
CbReset ==
  /\ output.handlers # <<>>
  /\ input' = [fn |-> "reset", handler |-> 0, reg |-> 0, call |-> 0]
  /\ output' = [output EXCEPT !.handlers = <<>>, !.regOf = <<>>]
  /\ UNCHANGED <<histVars, obsVars, routerVars, tableVars>>

CallbacksNext ==
  \/ \E handler \in CallbackHandlers : CbAdd(handler)
  \/ \E reg \in 1..MaxAdds : CbRemove(reg)
  \/ CbReset

SpecCallbacks == CallbacksInit /\ [][CallbacksNext]_vars

(***************************************************************************)
(* Claims about the removal functions of a callback list                   *)
(***************************************************************************)
\* the step is a call of a removal function
RemoveStep == input'.fn = "remove" /\ input' # input

\* the list without the entry that the reg-th call of add pushed
WithoutRegistration(st, reg) ==
  Without(st.handlers,
          IF \E i \in 1..Len(st.regOf) : st.regOf[i] = reg
            THEN CHOOSE i \in 1..Len(st.regOf) : st.regOf[i] = reg
            ELSE 0)

\* C37: the first call of the removal function returned by add(h) removes
\* exactly the registration it was returned for and keeps the order of the
\* others, and a later call of it removes nothing, also when h was
\* registered more than once or the list was reset in between.
C37_RemovalByRegistration ==
  [][RemoveStep =>
       output'.handlers = IF input'.call = 1
                            THEN WithoutRegistration(output, input'.reg)
                            ELSE output.handlers
    ]_vars

\* what the removal function does: at every call it removes the first
\* entry of the list that holds its handler, whichever call of add pushed it
C37_RemovalByHandler ==
  [][RemoveStep =>
       output'.handlers =
         Without(output.handlers, FirstIndexOf(output.handlers, input'.handler))
    ]_vars

(***************************************************************************)
(* Claims about modifiers and escapes in tokenizePath                      *)
(***************************************************************************)
RECURSIVE Backslashes(_, _)
\* how many backslashes in a row end at position k of the path
Backslashes(path, k) ==
  IF k < 1 \/ path[k] # "\\" THEN 0 ELSE 1 + Backslashes(path, k - 1)

\* the character at k is a modifier that no backslash escapes
UnescapedModifierAt(path, k) ==
  IsModifier(path[k]) /\ Backslashes(path, k - 1) % 2 = 0

\* the parameter tokens returned with repeatable or optional set
ModifiedParams ==
  {token \in UNION {{output.tokens[s][k] : k \in 1..Len(output.tokens[s])} :
                       s \in 1..Len(output.tokens)} :
     token.type = "param" /\ (token.repeatable \/ token.optional)}

\* C38: tokenizePath marks a parameter token repeatable or optional only
\* when the parameter is immediately followed by an unescaped modifier
\* character (*, + or ?); a modifier escaped with a backslash is literal
\* text and never sets repeatable or optional, so a pattern whose modifier
\* characters are all escaped yields no repeatable or optional parameter.
C38_EscapedModifierIsLiteral ==
  (Tokenized /\ output.status = "ok" /\ ModifiedParams # {}) =>
    \E k \in 1..Len(input.path) : UnescapedModifierAt(input.path, k)

\* what holds: a parameter is repeatable or optional only if the pattern
\* has a modifier character, escaped or not
C38_ModifiedNeedsModifierChar ==
  (Tokenized /\ output.status = "ok" /\ ModifiedParams # {}) =>
    \E k \in 1..Len(input.path) : IsModifier(input.path[k])

(***************************************************************************)
(* tokenizePath run one turn of its loop at a time, on every pattern of at *)
(* most MaxScanLen characters; `output` holds the locals of the function   *)
(* and, for the claims, how often each character was read                  *)
(***************************************************************************)
MaxScanLen == 4

ScanChars == {"/", ":", "a", "*", "(", ")", "\\"}

ScanInit ==
  /\ HistInit /\ RouterInit
  /\ \E n \in 0..MaxScanLen : \E path \in [1..n -> ScanChars] :
       /\ input = [fn |-> "tokenizePath", path |-> path]
       /\ output = [status |-> "running", t |-> TokenizerStart,
                     reads |-> [k \in 1..n |-> 0], tokens |-> <<>>]

\* the returns before the loop
ReturnsEarly(path) == IF Len(path) = 0 THEN TRUE ELSE path = <<"/">> \/ path[1] # "/"

\* if (!path) return [[]]; if (path === '/') return [[ROOT_TOKEN]];
\* if (!path.startsWith('/')) throw
ScanEarly ==
  /\ output.status = "running"
  /\ ReturnsEarly(input.path)
  /\ output' = [output EXCEPT
                  !.status = IF Len(input.path) > 0 /\ input.path[1] # "/"
                               THEN "error" ELSE "ok",
                  !.tokens = IF Len(input.path) = 0 THEN << <<>> >>
                             ELSE IF input.path = <<"/">> THEN << <<ROOT_TOKEN>> >>
                             ELSE <<>>]
  /\ UNCHANGED <<histVars, obsVars, routerVars, input, tableVars>>

\* one turn of while (i < path.length) { char = path[i++] ... }
ScanStep ==
  /\ output.status = "running"
  /\ ~ReturnsEarly(input.path)
  /\ output.t.crashed = "" /\ output.t.i < Len(input.path)
  /\ output' = [output EXCEPT
                  !.t = TokenizerStep(output.t, input.path),
                  !.reads[output.t.i + 1] = @ + 1]
  /\ UNCHANGED <<histVars, obsVars, routerVars, input, tableVars>>

\* a crash inside the loop, or the end of the loop: the check for an
\* unfinished regexp, consumeBuffer(), finalizeSegment(), return tokens
ScanEnd ==
  /\ output.status = "running"
  /\ ~ReturnsEarly(input.path)
  /\ output.t.crashed # "" \/ output.t.i >= Len(input.path)
  /\ LET t == output.t
         c == IF t.crashed # "" THEN t
              ELSE IF t.state = "ParamRegExp"
                THEN [t EXCEPT !.crashed = "Unfinished custom RegExp for param"]
              ELSE ConsumeBuffer(t)
     IN  output' = [output EXCEPT
                      !.status = IF c.crashed # "" THEN "error" ELSE "ok",
                      !.t = c,
                      !.tokens = IF c.crashed # "" THEN <<>> ELSE FinalizeSegment(c).tokens]
  /\ UNCHANGED <<histVars, obsVars, routerVars, input, tableVars>>

ScanNext == ScanEarly \/ ScanStep \/ ScanEnd

\* the function runs to its end once called: nothing can suspend the loop
SpecScan == ScanInit /\ [][ScanNext]_vars /\ WF_vars(ScanNext)

(***************************************************************************)
(* Claims about the scan of tokenizePath                                   *)
(***************************************************************************)
Scanned == output.status \in {"ok", "error"}

\* a turn of the loop ends on the index it started on
StepsBack == output.status = "running" /\ output'.status = "running"
               /\ output'.t.i = output.t.i

\* C39: tokenizePath terminates on every finite pattern, by returning
\* segments or by failing: a turn of the loop moves the index forward by
\* one or, stepping back by one character, leaves it where it was, and it
\* steps back only together with a change to the static-text state, so no
\* character is read more than twice.
C39_ScanTerminates ==
  /\ [][ /\ output'.t.i \in {output.t.i, output.t.i + 1}
          /\ StepsBack => (output.t.state # "Static" /\ output'.t.state = "Static")
       ]_vars
  /\ [](\A k \in 1..Len(input.path) : output.reads[k] <= 2)
  /\ <>Scanned

\* the stepwise run gives what TokenizePath gives
ScanAgreesWithTokenizePath ==
  Scanned => /\ output.status = TokenizePath(input.path).status
             /\ output.tokens = TokenizePath(input.path).tokens

\* a pattern was tokenized into a parameter followed by a new segment after
\* the character that ended the parameter name was read twice
C39_Witness ==
  /\ output.status = "ok"
  /\ input.path = <<"/", ":", "a", "/">>
  /\ output.reads = <<1, 1, 1, 2>>
  /\ output.tokens = << <<ParamToken(<<"a">>, <<>>, FALSE, FALSE)>>, <<>> >>

(***************************************************************************)
(* RouterLink.ts : useLink, for a link target and a current route.  A      *)
(* param value is a string or an array of strings; the record tells which. *)
(***************************************************************************)
StringValue(s) == [isArray |-> FALSE, items |-> <<s>>]

ArrayValue(items) == [isArray |-> TRUE, items |-> items]

\* params[key] of a key the object does not have
UndefinedValue == [isArray |-> FALSE, items |-> <<>>]

ParamOf(params, key) == IF key \in DOMAIN params THEN params[key] ELSE UndefinedValue

\* isEquivalentArray(a, b), a an array
IsEquivalentArray(a, b) ==
  IF b.isArray THEN a.items = b.items
  ELSE Len(a.items) = 1 /\ b # UndefinedValue /\ a.items[1] = b.items[1]

\* isSameRouteLocationParamsValue(a, b)
IsSameRouteLocationParamsValue(a, b) ==
  IF a.isArray THEN IsEquivalentArray(a, b)
  ELSE IF b.isArray THEN IsEquivalentArray(b, a)
  ELSE a = b

\* isSameRouteLocationParams(a, b), over params whose values are strings or
\* arrays
IsSameRouteLocationParamsGeneric(a, b) ==
  /\ Cardinality(DOMAIN a) = Cardinality(DOMAIN b)
  /\ \A key \in DOMAIN a : IsSameRouteLocationParamsValue(a[key], ParamOf(b, key))

\* includesParams(outer, inner)
IncludesParams(outer, inner) ==
  \A key \in DOMAIN inner :
    LET innerValue == inner[key]
        outerValue == ParamOf(outer, key)
    IN  IF ~innerValue.isArray
          THEN innerValue = outerValue
          ELSE /\ outerValue.isArray
               /\ Len(outerValue.items) = Len(innerValue.items)
               /\ \A i \in 1..Len(innerValue.items) : innerValue.items[i] = outerValue.items[i]

\* record.path of the records of the links: P with the children X and Y, A
\* with its alias A2, Q with the child Z of empty path and Z2, the alias of
\* Z, and W, whose param is repeatable
LinkRecordPath(r) ==
  CASE r = "P" -> "/p" [] r = "X" -> "/p/x" [] r = "Y" -> "/p/y"
    [] r = "A" -> "/a" [] r = "A2" -> "/a2"
    [] r = "Q" -> "/q" [] r = "Z" -> "/q" [] r = "Z2" -> "/q/z2"
    [] r = "W" -> "/w/:id+"
    [] OTHER -> ""

\* getOriginalPath(record)
GetOriginalPath(r) ==
  IF r = NoRec THEN ""
  ELSE IF RouteRecord(r).aliasOf # NoRec THEN LinkRecordPath(RouteRecord(r).aliasOf)
  ELSE LinkRecordPath(r)

\* currentMatched.findIndex(isSameRouteRecord.bind(null, record)), 0-based
FindIndex(currentMatched, record) ==
  LET hits == {i \in 1..Len(currentMatched) : IsSameRouteRecord(record, currentMatched[i])}
  IN  IF hits = {} THEN -1 ELSE (CHOOSE i \in hits : \A j \in hits : i <= j) - 1

\* the computed activeRecordIndex
ActiveRecordIndex(route, current) ==
  LET matched == route.matched
      length == Len(matched)
      currentMatched == current.matched
  IN  IF length = 0 \/ Len(currentMatched) = 0 THEN -1
      ELSE LET routeMatched == matched[length]
               index == FindIndex(currentMatched, routeMatched)
               parentRecordPath == GetOriginalPath(IF length > 1 THEN matched[length - 1]
                                                   ELSE NoRec)
           IN  IF index > -1 THEN index
               ELSE IF /\ length > 1
                       /\ GetOriginalPath(routeMatched) = parentRecordPath
                       /\ LinkRecordPath(currentMatched[Len(currentMatched)])
                            # parentRecordPath
                 THEN FindIndex(currentMatched, matched[length - 1])
                 ELSE index

\* the computed isActive
IsActive(route, current) ==
  /\ ActiveRecordIndex(route, current) > -1
  /\ IncludesParams(current.params, route.params)

\* the computed isExactActive
IsExactActive(route, current) ==
  /\ ActiveRecordIndex(route, current) > -1
  /\ ActiveRecordIndex(route, current) = Len(current.matched) - 1
  /\ IsSameRouteLocationParamsGeneric(current.params, route.params)

\* the values the repeatable param of W takes: an array when the location
\* was parsed from a path, what the caller gave when it was resolved by name
RepeatableValues ==
  {StringValue("x"), StringValue("y"), ArrayValue(<<"x">>), ArrayValue(<<"x", "y">>)}

\* resolved locations: the matched chain and the params
LinkLocations ==
  {[matched |-> chain, params |-> NoParams] :
     chain \in {<<>>, <<"P", "X">>, <<"P", "Y">>, <<"A">>, <<"A2">>, <<"Q">>,
                <<"Q", "Z">>, <<"Q", "Z2">>}}
    \cup {[matched |-> <<"W">>, params |-> [id |-> v]] : v \in RepeatableValues}

LinkInit ==
  /\ HistInit /\ RouterInit
  /\ \E route \in LinkLocations, current \in LinkLocations :
       input = [fn |-> "useLink", route |-> route, currentRoute |-> current]
  /\ output = NotRun

\* useLink(props): route = router.resolve(props.to) against the current route
UseLink ==
  /\ input.fn = "useLink"
  /\ output = NotRun
  /\ output' = [status |-> "ok",
                activeRecordIndex |-> ActiveRecordIndex(input.route, input.currentRoute),
                isActive |-> IsActive(input.route, input.currentRoute),
                isExactActive |-> IsExactActive(input.route, input.currentRoute)]
  /\ UNCHANGED <<histVars, obsVars, routerVars, input, tableVars>>

LinkNext == UseLink

SpecLink == LinkInit /\ [][LinkNext]_vars

(***************************************************************************)
(* Claims about the active state of a link                                 *)
(***************************************************************************)
Linked == input.fn = "useLink" /\ output # NotRun

\* C40: for a link computed by useLink isExactActive implies isActive, for
\* every current route and every link target.
C40_ExactActiveIsActive ==
  Linked => (output.isExactActive => output.isActive)

\* what holds: an exact-active link is active unless one of the two values
\* of a param is a string and the other the array holding that string
C40_ExactActiveButForArrayOfOne ==
  (Linked /\ output.isExactActive /\ ~output.isActive) =>
      \E key \in DOMAIN input.route.params :
        LET a == input.route.params[key]
            b == input.currentRoute.params[key]
        IN  a.isArray # b.isArray /\ a.items = b.items /\ Len(a.items) = 1
====
